-------------------------- MODULE StorageCommands ---------------------------
(***************************************************************************)
(* The requests of the services for file systems, content, titles and      *)
(* networks.                                                               *)
(***************************************************************************)
EXTENDS IpcMessage

-----------------------------------------------------------------------------
(* The requests of the services for file systems, content and titles:      *)
(* fs.c, fsldr.c, fspr.c, ncm.c, lr.c and ns.c.                            *)

(* fs.c *)
fsInitialize == AskService("fsSrv", 1, 6, <<"pid">>)
fsOpenBisStorage == CreatingSubservice("FsStorage", AskService("fsSrv", 12, 6, <<>>))
fsOpenBisFileSystem == CreatingSubservice("FsFileSystem", AskService("fsSrv", 11, 6, <<"in">>))
fsMountSdcard == CreatingSubservice("FsFileSystem", AskService("fsSrv", 18, 4, <<>>))
fsMountSaveData == CreatingSubservice("FsFileSystem", AskService("fsSrv", 51, 22, <<>>))
fsMountSystemSaveData == CreatingSubservice("FsFileSystem", AskService("fsSrv", 52, 22, <<>>))
fsOpenSaveDataIterator ==
  CreatingSubservice("FsSaveDataIterator",
    AskService("fsSrv", 60, 4, <<>>)
      \cup AskService("fsSrv", 61, 6, <<>>))
fsOpenDataStorageByCurrentProcess ==
  CreatingSubservice("FsStorage", AskService("fsSrv", 200, 4, <<>>))
fsOpenDataStorageByDataId == CreatingSubservice("FsStorage", AskService("fsSrv", 202, 8, <<>>))
fsOpenDeviceOperator == CreatingSubservice("FsDeviceOperator", AskService("fsSrv", 400, 4, <<>>))
fsOpenSdCardDetectionEventNotifier ==
  CreatingSubservice("FsEventNotifier", AskService("fsSrv", 500, 4, <<>>))
fsIsExFatSupported == Since(2, AskService("fsSrv", 27, 4, <<>>))
fsOpenFileSystemWithId ==
  CreatingSubservice("FsFileSystem",
    Since(2, AskService("fsSrv", 8, 8, <<"in">>))
      \cup Before(2, AskService("fsSrv", 0, 6, <<"in">>)))
fsFsCreateFile == AskService("FsFileSystem", 0, 10, <<"in">>)
fsFsDeleteFile == AskService("FsFileSystem", 1, 4, <<"in">>)
fsFsCreateDirectory == AskService("FsFileSystem", 2, 4, <<"in">>)
fsFsDeleteDirectory == AskService("FsFileSystem", 3, 4, <<"in">>)
fsFsDeleteDirectoryRecursively == AskService("FsFileSystem", 4, 4, <<"in">>)
fsFsRenameFile == AskService("FsFileSystem", 5, 4, <<"in", "in">>)
fsFsRenameDirectory == AskService("FsFileSystem", 6, 4, <<"in", "in">>)
fsFsGetEntryType == AskService("FsFileSystem", 7, 4, <<"in">>)
fsFsOpenFile == CreatingSubservice("FsFile", AskService("FsFileSystem", 8, 6, <<"in">>))
fsFsOpenDirectory == CreatingSubservice("FsDir", AskService("FsFileSystem", 9, 6, <<"in">>))
fsFsCommit == AskService("FsFileSystem", 10, 4, <<>>)
fsFsGetFreeSpace == AskService("FsFileSystem", 11, 4, <<"in">>)
fsFsGetTotalSpace == AskService("FsFileSystem", 12, 4, <<"in">>)
fsFsCleanDirectoryRecursively == Since(3, AskService("FsFileSystem", 13, 4, <<"in">>))
fsFsGetFileTimeStampRaw == Since(3, AskService("FsFileSystem", 14, 4, <<"in">>))
fsFsQueryEntry == Since(4, AskService("FsFileSystem", 15, 6, <<"in", "send", "recv">>))
fsFileRead == AskService("FsFile", 0, 10, <<"recv">>)
fsFileWrite == AskService("FsFile", 1, 10, <<"send">>)
fsFileFlush == AskService("FsFile", 2, 4, <<>>)
fsFileSetSize == AskService("FsFile", 3, 6, <<>>)
fsFileGetSize == AskService("FsFile", 4, 4, <<>>)
fsDirRead == AskService("FsDir", 0, 6, <<"recv">>)
fsDirGetEntryCount == AskService("FsDir", 1, 4, <<>>)
fsStorageRead == AskService("FsStorage", 0, 8, <<"recv">>)
fsStorageWrite == AskService("FsStorage", 1, 8, <<"send">>)
fsStorageFlush == AskService("FsStorage", 2, 4, <<>>)
fsStorageSetSize == AskService("FsStorage", 3, 6, <<>>)
fsStorageGetSize == AskService("FsStorage", 4, 4, <<>>)
fsSaveDataIteratorRead == AskService("FsSaveDataIterator", 0, 4, <<"recv">>)
fsEventNotifierGetEventHandle == AskService("FsEventNotifier", 0, 4, <<>>)
_fsDeviceOperatorCheckInserted(cmd_id) == AskService("FsDeviceOperator", cmd_id, 4, <<>>)
fsDeviceOperatorIsSdCardInserted == _fsDeviceOperatorCheckInserted(0)
fsDeviceOperatorIsGameCardInserted == _fsDeviceOperatorCheckInserted(200)
fsDeviceOperatorGetGameCardHandle == AskService("FsDeviceOperator", 202, 4, <<>>)
fsDeviceOperatorGetGameCardAttribute == AskService("FsDeviceOperator", 205, 6, <<>>)

(* fsldr.c *)
fsldrOpenCodeFileSystem ==
  CreatingSubservice("FsFileSystem", AskService("fsldrSrv", 0, 6, <<"in">>))
fsldrIsArchivedProgram == AskService("fsldrSrv", 1, 6, <<>>)
fsldrSetCurrentProcess == AskService("fsldrSrv", 2, 6, <<"pid">>)

(* fspr.c *)
fsprRegisterProgram == Ask("fsprSrv", 0, 14, <<"send", "send">>)
fsprUnregisterProgram == Ask("fsprSrv", 1, 6, <<>>)
fsprSetCurrentProcess == Ask("fsprSrv", 2, 6, <<"pid">>)
fsprSetEnabledProgramVerification == Ask("fsprSrv", 256, 6, <<>>)

(* ncm.c *)
ncmOpenContentStorage == Creating("NcmContentStorage", Ask("ncmSrv", 4, 6, <<>>))
ncmOpenContentMetaDatabase == Creating("NcmContentMetaDatabase", Ask("ncmSrv", 5, 6, <<>>))
ncmContentStorageGeneratePlaceHolderId == Ask("NcmContentStorage", 0, 4, <<>>)
ncmContentStorageCreatePlaceHolder == Ask("NcmContentStorage", 1, 14, <<>>)
ncmContentStorageDeletePlaceHolder == Ask("NcmContentStorage", 2, 8, <<>>)
ncmContentStorageWritePlaceHolder == Ask("NcmContentStorage", 4, 10, <<"send">>)
ncmContentStorageRegister == Ask("NcmContentStorage", 5, 12, <<>>)
ncmContentStorageDelete == Ask("NcmContentStorage", 6, 8, <<>>)
ncmContentStorageHas == Ask("NcmContentStorage", 7, 8, <<>>)
ncmContentStorageGetPath == Ask("NcmContentStorage", 8, 8, <<"out">>)
ncmContentStorageGetPlaceHolderPath == Ask("NcmContentStorage", 9, 8, <<"out">>)
ncmContentStorageCleanupAllPlaceHolder == Ask("NcmContentStorage", 10, 4, <<>>)
ncmContentStorageGetSize == Ask("NcmContentStorage", 14, 8, <<>>)
ncmContentStorageDisableForcibly == Ask("NcmContentStorage", 15, 4, <<>>)
ncmContentStorageReadContentIdFile == Ask("NcmContentStorage", 18, 10, <<"recv">>)
ncmContentStorageGetRightsIdFromContentId == Ask("NcmContentStorage", 20, 8, <<>>)
ncmContentMetaDatabaseSet == Ask("NcmContentMetaDatabase", 0, 8, <<"send">>)
ncmContentMetaDatabaseGet == Ask("NcmContentMetaDatabase", 1, 8, <<"recv">>)
ncmContentMetaDatabaseRemove == Ask("NcmContentMetaDatabase", 2, 8, <<>>)
ncmContentMetaDatabaseGetContentIdByType == Ask("NcmContentMetaDatabase", 3, 10, <<>>)
ncmContentMetaDatabaseListContentInfo == Ask("NcmContentMetaDatabase", 4, 10, <<"recv">>)
ncmContentMetaDatabaseList == Ask("NcmContentMetaDatabase", 5, 12, <<"recv">>)
ncmContentMetaDatabaseGetLatestContentMetaKey == Ask("NcmContentMetaDatabase", 6, 6, <<>>)
ncmContentMetaDatabaseListApplication == Ask("NcmContentMetaDatabase", 7, 6, <<"recv">>)
ncmContentMetaDatabaseHas == Ask("NcmContentMetaDatabase", 8, 8, <<>>)
ncmContentMetaDatabaseDisableForcibly == Ask("NcmContentMetaDatabase", 13, 4, <<>>)
ncmContentMetaDatabaseCommit == Ask("NcmContentMetaDatabase", 15, 4, <<>>)

(* lr.c *)
lrOpenLocationResolver == Creating("LrLocationResolver", Ask("lrManagerSrv", 0, 6, <<>>))
lrOpenRegisteredLocationResolver ==
  Creating("LrRegisteredLocationResolver", Ask("lrManagerSrv", 1, 4, <<>>))
_lrResolvePath(on, cmd_id) == Ask(on, cmd_id, 6, <<"out">>)
_lrRedirectPath(on, cmd_id) == Ask(on, cmd_id, 6, <<"in">>)
lrLrResolveProgramPath == _lrResolvePath("LrLocationResolver", 0)
lrLrRedirectProgramPath == _lrRedirectPath("LrLocationResolver", 1)
lrLrResolveApplicationControlPath == _lrResolvePath("LrLocationResolver", 2)
lrLrResolveApplicationHtmlDocumentPath == _lrResolvePath("LrLocationResolver", 3)
lrLrResolveDataPath == _lrResolvePath("LrLocationResolver", 4)
lrLrRedirectApplicationControlPath == _lrRedirectPath("LrLocationResolver", 5)
lrLrRedirectApplicationHtmlDocumentPath == _lrRedirectPath("LrLocationResolver", 6)
lrLrResolveLegalInformationPath == _lrResolvePath("LrLocationResolver", 7)
lrLrRedirectLegalInformationPath == _lrRedirectPath("LrLocationResolver", 8)
lrLrRefresh == Ask("LrLocationResolver", 9, 4, <<>>)
lrRegLrResolveProgramPath == _lrResolvePath("LrRegisteredLocationResolver", 0)

(* ns.c *)
_nsGetInterface(cmd_id, obj) == Creating(obj, Ask("nsGetterSrv", cmd_id, 4, <<>>))
nsInitialize == Since(3, _nsGetInterface(7996, "nsAppManSrv"))
nsListApplicationRecord == Ask("nsAppManSrv", 0, 6, <<"recv">>)
nsListApplicationContentMetaStatus == Ask("nsAppManSrv", 601, 8, <<"recv">>)
nsGetApplicationControlData == Ask("nsAppManSrv", 400, 8, <<"recv">>)
nsGetTotalSpaceSize == Ask("nsAppManSrv", 47, 6, <<>>)
nsGetFreeSpaceSize == Ask("nsAppManSrv", 48, 6, <<>>)
nsvmNeedsUpdateVulnerability ==
  Since(3, Ask("nsvmSrv", 1200, 4, <<>>)) \cup Before(3, Ask("nsAppManSrv", 1200, 4, <<>>))
nsvmGetSafeSystemVersion == Since(3, Ask("nsvmSrv", 1202, 4, <<>>))
nsdevLaunchProgram == AskService("nsdevSrv", 0, 10, <<>>)
nsdevTerminateProcess == AskService("nsdevSrv", 1, 6, <<>>)
nsdevTerminateProgram == AskService("nsdevSrv", 2, 6, <<>>)
nsdevGetShellEvent == AskService("nsdevSrv", 4, 4, <<>>)
nsdevGetShellEventInfo == AskService("nsdevSrv", 5, 4, <<>>)
nsdevTerminateApplication == AskService("nsdevSrv", 6, 4, <<>>)
nsdevPrepareLaunchProgramFromHost == AskService("nsdevSrv", 7, 4, <<"send">>)
nsdevLaunchApplication == AskService("nsdevSrv", 8, 8, <<>>)
nsdevLaunchApplicationWithStorageId == AskService("nsdevSrv", 9, 8, <<>>)
nsdevIsSystemMemoryResourceLimitBoosted == Since(6, AskService("nsdevSrv", 10, 4, <<>>))
nsdevGetRunningApplicationProcessId == Since(6, AskService("nsdevSrv", 11, 4, <<>>))
nsdevSetCurrentApplicationRightsEnvironmentCanBeActive ==
  Since(6, AskService("nsdevSrv", 12, 6, <<>>))

StorageRequests == UNION {
  fsInitialize, fsOpenBisStorage, fsOpenBisFileSystem, fsMountSdcard, fsMountSaveData,
  fsMountSystemSaveData, fsOpenSaveDataIterator, fsOpenDataStorageByCurrentProcess,
  fsOpenDataStorageByDataId, fsOpenDeviceOperator, fsOpenSdCardDetectionEventNotifier,
  fsIsExFatSupported, fsOpenFileSystemWithId, fsFsCreateFile, fsFsDeleteFile, fsFsCreateDirectory,
  fsFsDeleteDirectory, fsFsDeleteDirectoryRecursively, fsFsRenameFile, fsFsRenameDirectory,
  fsFsGetEntryType, fsFsOpenFile, fsFsOpenDirectory, fsFsCommit, fsFsGetFreeSpace,
  fsFsGetTotalSpace, fsFsCleanDirectoryRecursively, fsFsGetFileTimeStampRaw, fsFsQueryEntry,
  fsFileRead, fsFileWrite, fsFileFlush, fsFileSetSize, fsFileGetSize, fsDirRead,
  fsDirGetEntryCount, fsStorageRead, fsStorageWrite, fsStorageFlush, fsStorageSetSize,
  fsStorageGetSize, fsSaveDataIteratorRead, fsEventNotifierGetEventHandle,
  fsDeviceOperatorIsSdCardInserted, fsDeviceOperatorIsGameCardInserted,
  fsDeviceOperatorGetGameCardHandle, fsDeviceOperatorGetGameCardAttribute,
  fsldrOpenCodeFileSystem, fsldrIsArchivedProgram, fsldrSetCurrentProcess, fsprRegisterProgram,
  fsprUnregisterProgram, fsprSetCurrentProcess, fsprSetEnabledProgramVerification,
  ncmOpenContentStorage, ncmOpenContentMetaDatabase, ncmContentStorageGeneratePlaceHolderId,
  ncmContentStorageCreatePlaceHolder, ncmContentStorageDeletePlaceHolder,
  ncmContentStorageWritePlaceHolder, ncmContentStorageRegister, ncmContentStorageDelete,
  ncmContentStorageHas, ncmContentStorageGetPath, ncmContentStorageGetPlaceHolderPath,
  ncmContentStorageCleanupAllPlaceHolder, ncmContentStorageGetSize,
  ncmContentStorageDisableForcibly, ncmContentStorageReadContentIdFile,
  ncmContentStorageGetRightsIdFromContentId, ncmContentMetaDatabaseSet, ncmContentMetaDatabaseGet,
  ncmContentMetaDatabaseRemove, ncmContentMetaDatabaseGetContentIdByType,
  ncmContentMetaDatabaseListContentInfo, ncmContentMetaDatabaseList,
  ncmContentMetaDatabaseGetLatestContentMetaKey, ncmContentMetaDatabaseListApplication,
  ncmContentMetaDatabaseHas, ncmContentMetaDatabaseDisableForcibly, ncmContentMetaDatabaseCommit,
  lrOpenLocationResolver, lrOpenRegisteredLocationResolver, lrLrResolveProgramPath,
  lrLrRedirectProgramPath, lrLrResolveApplicationControlPath,
  lrLrResolveApplicationHtmlDocumentPath, lrLrResolveDataPath, lrLrRedirectApplicationControlPath,
  lrLrRedirectApplicationHtmlDocumentPath, lrLrResolveLegalInformationPath,
  lrLrRedirectLegalInformationPath, lrLrRefresh, lrRegLrResolveProgramPath, nsInitialize,
  nsListApplicationRecord, nsListApplicationContentMetaStatus, nsGetApplicationControlData,
  nsGetTotalSpaceSize, nsGetFreeSpaceSize, nsvmNeedsUpdateVulnerability, nsvmGetSafeSystemVersion,
  nsdevLaunchProgram, nsdevTerminateProcess, nsdevTerminateProgram, nsdevGetShellEvent,
  nsdevGetShellEventInfo, nsdevTerminateApplication, nsdevPrepareLaunchProgramFromHost,
  nsdevLaunchApplication, nsdevLaunchApplicationWithStorageId,
  nsdevIsSystemMemoryResourceLimitBoosted, nsdevGetRunningApplicationProcessId,
  nsdevSetCurrentApplicationRightsEnvironmentCanBeActive}

-----------------------------------------------------------------------------
(* The requests of the services for networks: bsd.c, nifm.c and wlaninf.c. *)

(* Every buffer is a smart one. *)
Sends(n) == [i \in 1..2 * n |-> IF i % 2 = 1 THEN "send" ELSE "in"]
Receives(n) == [i \in 1..2 * n |-> IF i % 2 = 1 THEN "recv" ELSE "out"]

(* bsd.c *)
_bsdRegisterClient(on) == Ask(on, 0, 16, <<"pid", "copy">>)
_bsdStartMonitor(on) == Ask(on, 1, 6, <<"pid">>)
_bsdNameGetterCommand(cmd_id) == Ask("bsdSrv", cmd_id, 5, <<"recv", "out">>)
_bsdSocketCreationCommand(cmd_id) == Ask("bsdSrv", cmd_id, 8, <<>>)
bsdInitialize == _bsdRegisterClient("bsdSrv") \cup _bsdStartMonitor("bsdMonitor")
bsdSocket == _bsdSocketCreationCommand(2)
bsdSocketExempt == _bsdSocketCreationCommand(3)
bsdOpen == Ask("bsdSrv", 4, 6, <<"send", "in">>)
bsdSelect == Ask("bsdSrv", 5, 12, Sends(4) \o Receives(4))
bsdPoll == Ask("bsdSrv", 6, 8, <<"send", "in", "recv", "out">>)
bsdSysctl == Ask("bsdSrv", 7, 4, <<"send", "in", "send", "in", "recv", "out">>)
bsdRecv == Ask("bsdSrv", 8, 6, <<"recv", "out">>)
bsdRecvFrom == Ask("bsdSrv", 9, 6, <<"recv", "out", "recv", "out">>)
bsdSend == Ask("bsdSrv", 10, 6, <<"send", "in">>)
bsdSendTo == Ask("bsdSrv", 11, 6, <<"send", "in", "send", "in">>)
bsdAccept == _bsdNameGetterCommand(12)
bsdBind == Ask("bsdSrv", 13, 6, <<"send", "in">>)
bsdConnect == Ask("bsdSrv", 14, 6, <<"send", "in">>)
bsdGetPeerName == _bsdNameGetterCommand(15)
bsdGetSockName == _bsdNameGetterCommand(16)
bsdGetSockOpt == Ask("bsdSrv", 17, 7, <<"recv", "out">>)
bsdListen == Ask("bsdSrv", 18, 6, <<>>)
bsdIoctl == Ask("bsdSrv", 19, 7, Sends(4) \o Receives(4))
bsdFcntl == Ask("bsdSrv", 20, 8, <<>>)
bsdSetSockOpt == Ask("bsdSrv", 21, 8, <<"send", "in">>)
bsdShutdown == Ask("bsdSrv", 22, 6, <<>>)
bsdShutdownAllSockets == Ask("bsdSrv", 23, 6, <<>>)
bsdWrite == Ask("bsdSrv", 24, 6, <<"send", "in">>)
bsdRead == Ask("bsdSrv", 25, 5, <<"recv", "out">>)
bsdClose == Ask("bsdSrv", 26, 6, <<>>)
bsdDuplicateSocket == Ask("bsdSrv", 27, 8, <<>>)

(* nifm.c *)
_nifmCreateGeneralService(obj) == CreatingSubservice(obj, AskService("nifmSrv", 5, 6, <<"pid">>))
_nifmCreateGeneralServiceOld(obj) == CreatingSubservice(obj, AskService("nifmSrv", 4, 4, <<>>))
nifmInitialize ==
  Since(3, _nifmCreateGeneralService("nifmIGS"))
    \cup Before(3, _nifmCreateGeneralServiceOld("nifmIGS"))
nifmGetCurrentIpAddress == AskService("nifmIGS", 12, 4, <<>>)
nifmIsWirelessCommunicationEnabled == AskService("nifmIGS", 17, 4, <<>>)
nifmSetWirelessCommunicationEnabled == AskService("nifmIGS", 16, 6, <<>>)
nifmIsEthernetCommunicationEnabled == AskService("nifmIGS", 20, 4, <<>>)
nifmIsAnyForegroundRequestAccepted == AskService("nifmIGS", 22, 4, <<>>)
nifmPutToSleep == AskService("nifmIGS", 23, 4, <<>>)
nifmWakeUp == AskService("nifmIGS", 24, 4, <<>>)
nifmGetInternetConnectionStatus == AskService("nifmIGS", 18, 4, <<>>)

(* wlaninf.c *)
wlaninfGetState == AskService("wlaninfSrv", 10, 4, <<>>)
wlaninfGetRSSI == AskService("wlaninfSrv", 12, 4, <<>>)

NetworkRequests == UNION {
  bsdInitialize, bsdSocket, bsdSocketExempt, bsdOpen, bsdSelect, bsdPoll, bsdSysctl, bsdRecv,
  bsdRecvFrom, bsdSend, bsdSendTo, bsdAccept, bsdBind, bsdConnect, bsdGetPeerName, bsdGetSockName,
  bsdGetSockOpt, bsdListen, bsdIoctl, bsdFcntl, bsdSetSockOpt, bsdShutdown, bsdShutdownAllSockets,
  bsdWrite, bsdRead, bsdClose, bsdDuplicateSocket, nifmInitialize, nifmGetCurrentIpAddress,
  nifmIsWirelessCommunicationEnabled, nifmSetWirelessCommunicationEnabled,
  nifmIsEthernetCommunicationEnabled, nifmIsAnyForegroundRequestAccepted, nifmPutToSleep,
  nifmWakeUp, nifmGetInternetConnectionStatus, wlaninfGetState, wlaninfGetRSSI}

-----------------------------------------------------------------------------
All == StorageRequests \cup NetworkRequests
=============================================================================
