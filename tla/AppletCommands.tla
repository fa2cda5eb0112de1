--------------------------- MODULE AppletCommands ---------------------------
(***************************************************************************)
(* The requests of the services for applets, accounts, settings and keys.  *)
(***************************************************************************)
EXTENDS IpcMessage

-----------------------------------------------------------------------------
(* The requests of the services for applets: applet.c.                     *)

(* Sessions that differ with the type of the applet. *)
ProxyTypes ==
  {"Application", "SystemApplet", "LibraryApplet", "OverlayApplet", "SystemApplication"}
Applications == {"Application", "SystemApplication"}
Proxy(t) == "appletProxySession of " \o t
IFunctions(t) == "appletIFunctions of " \o t
ProxyCommand == [Application |-> 0, SystemApplet |-> 100, LibraryApplet |-> 200,
                 OverlayApplet |-> 300, SystemApplication |-> 350]

(* applet.c *)
_appletSetFocusHandlingMode == AskService("appletISelfController", 13, 6, <<>>)
_appletSetOutOfFocusSuspendingEnabled == AskService("appletISelfController", 16, 6, <<>>)
appletSetFocusHandlingMode ==
  _appletSetFocusHandlingMode \cup Since(2, _appletSetOutOfFocusSuspendingEnabled)
_appletCmdNoIO(on, cmd_id) == AskService(on, cmd_id, 4, <<>>)
_appletSelfExit == _appletCmdNoIO("appletISelfController", 0)
_appletExitProcessAndReturn == _appletCmdNoIO("appletILibraryAppletSelfAccessor", 10)
appletExit == appletSetFocusHandlingMode \cup _appletExitProcessAndReturn \cup _appletSelfExit
_appletGetHandle(on, cmd_id) == AskService(on, cmd_id, 4, <<>>)
_appletGetEvent(on, cmd_id) == _appletGetHandle(on, cmd_id)
_appletGetSession(on, cmd_id, obj) == CreatingSubservice(obj, AskService(on, cmd_id, 4, <<>>))
_appletGetSessionProxy(cmd_id, obj) ==
  CreatingSubservice(obj, AskService("appletSrv", cmd_id, 6, <<"pid", "copy">>))
_appletCmdNoInOut64(on, cmd_id) == AskService(on, cmd_id, 4, <<>>)
_appletGetAppletResourceUserId == _appletCmdNoInOut64("appletIWindowController", 1)
_appletAcquireForegroundRights == _appletCmdNoIO("appletIWindowController", 10)
appletNotifyRunning == AskService(IFunctions("Application"), 40, 4, <<>>)
_appletReceiveMessage == AskService("appletICommonStateGetter", 1, 4, <<>>)
_appletGetOperationMode == AskService("appletICommonStateGetter", 5, 4, <<>>)
_appletGetPerformanceMode == AskService("appletICommonStateGetter", 6, 4, <<>>)
_appletGetCurrentFocusState == AskService("appletICommonStateGetter", 9, 4, <<>>)
_appletSetOperationModeChangedNotification == AskService("appletISelfController", 11, 6, <<>>)
_appletSetPerformanceModeChangedNotification == AskService("appletISelfController", 12, 6, <<>>)
appletInitialize ==
  UNION {_appletGetSessionProxy(ProxyCommand[t], Proxy(t)) : t \in ProxyTypes}
    \cup UNION {_appletGetSession(Proxy(t), 20, IFunctions(t)) :
                  t \in ProxyTypes \ {"LibraryApplet"}}
    \cup _appletGetSession(Proxy("SystemApplet"), 21, "appletIGlobalStateController")
    \cup _appletGetSession(Proxy("SystemApplet"), 22, "appletIApplicationCreator")
    \cup _appletGetSession(Proxy("LibraryApplet"), 20, "appletILibraryAppletSelfAccessor")
    \cup _appletGetSession(Proxy("LibraryApplet"), 10, "appletIProcessWindingController")
    \cup UNION {_appletGetSession(Proxy(t), 11, "appletILibraryAppletCreator")
                  \cup _appletGetSession(Proxy(t), 0, "appletICommonStateGetter")
                  \cup _appletGetSession(Proxy(t), 1, "appletISelfController")
                  \cup _appletGetSession(Proxy(t), 2, "appletIWindowController")
                  \cup _appletGetSession(Proxy(t), 3, "appletIAudioController")
                  \cup _appletGetSession(Proxy(t), 4, "appletIDisplayController")
                  \cup _appletGetSession(Proxy(t), 1000, "appletIDebugFunctions") :
                  t \in ProxyTypes}
    \cup _appletGetEvent("appletICommonStateGetter", 0)
    \cup _appletGetAppletResourceUserId
    \cup _appletGetCurrentFocusState
    \cup _appletReceiveMessage
    \cup _appletAcquireForegroundRights
    \cup appletSetFocusHandlingMode
    \cup appletNotifyRunning
    \cup _appletGetOperationMode
    \cup _appletGetPerformanceMode
    \cup _appletSetOperationModeChangedNotification
    \cup _appletSetPerformanceModeChangedNotification
    \cup appletExit
_appletGetSessionIn64(on, cmd_id, obj) == CreatingSubservice(obj, AskService(on, cmd_id, 6, <<>>))
_appletCmdInU8(on, cmd_id) == AskService(on, cmd_id, 6, <<>>)
_appletCmdInU64(on, cmd_id) == AskService(on, cmd_id, 6, <<>>)
_appletCmdInBool(on, cmd_id) == _appletCmdInU8(on, cmd_id)
_appletCmdInHandle64(on, cmd_id, obj) ==
  CreatingSubservice(obj, AskService(on, cmd_id, 6, <<"copy">>))
_appletCmdInTmem(on, cmd_id, obj) == _appletCmdInHandle64(on, cmd_id, obj)
_appletCmdInSession(on, cmd_id) == AskService(on, cmd_id, 4, <<"object">>)
_appletCmdInStorage(on, cmd_id) == _appletCmdInSession(on, cmd_id)
_appletCmdNoInOutStorage(on, cmd_id) == _appletGetSession(on, cmd_id, "AppletStorage")
appletPopLaunchParameter ==
  UNION {CreatingSubservice("AppletStorage", AskService(IFunctions(t), 1, 6, <<>>)) :
           t \in Applications}
_appletCreateApplicationAndPushAndRequestToStart(on, cmd_id) ==
  AskService(on, cmd_id, 6, <<"object">>)
_appletCreateApplicationAndPushAndRequestToStartForQuest ==
  UNION {AskService(IFunctions(t), 11, 8, <<"object">>) : t \in Applications}
_appletCreateApplicationAndRequestToStart ==
  UNION {_appletCmdInU64(IFunctions(t), 12) : t \in Applications}
_appletCreateApplicationAndRequestToStartForQuest ==
  UNION {AskService(IFunctions(t), 13, 8, <<>>) : t \in Applications}
appletCreateStorage == _appletGetSessionIn64("appletILibraryAppletCreator", 10, "AppletStorage")
appletRequestLaunchApplication ==
  Since(5,
    _appletCreateApplicationAndPushAndRequestToStart("appletILibraryAppletSelfAccessor", 90))
    \cup UNION {_appletCreateApplicationAndPushAndRequestToStart(IFunctions(t), 10) :
                  t \in Applications}
    \cup Since(4, _appletCreateApplicationAndRequestToStart)
    \cup Before(4, appletCreateStorage) \cup Since(5, appletCreateStorage)
appletRequestLaunchApplicationForQuest ==
  Since(4, _appletCreateApplicationAndRequestToStartForQuest)
    \cup Since(3, _appletCreateApplicationAndPushAndRequestToStartForQuest)
    \cup Before(4, appletCreateStorage)
appletGetDesiredLanguage == UNION {_appletCmdNoInOut64(IFunctions(t), 21) : t \in Applications}
appletSetTerminateResult == UNION {AskService(IFunctions(t), 22, 6, <<>>) : t \in Applications}
appletSetMediaPlaybackState ==
  _appletCmdInBool("appletISelfController", 61)
    \cup UNION {_appletCmdInBool(IFunctions(t), 60) : t \in Applications}
appletBeginBlockingHomeButton ==
  UNION {AskService(IFunctions(t), 32, 6, <<>>) : t \in Applications}
appletEndBlockingHomeButton == UNION {_appletCmdNoIO(IFunctions(t), 33) : t \in Applications}
appletIsGamePlayRecordingSupported == Since(3, AskService(IFunctions("Application"), 65, 4, <<>>))
_appletInitializeGamePlayRecording == Since(3, _appletCmdInTmem(IFunctions("Application"), 66, ""))
appletSetGamePlayRecordingState == Since(3, AskService(IFunctions("Application"), 67, 6, <<>>))
appletQueryApplicationPlayStatistics ==
  Since(5, AskService(IFunctions("Application"), 110, 4, <<"recv", "send">>))
appletBeginToWatchShortHomeButtonMessage == _appletCmdNoIO(IFunctions("OverlayApplet"), 0)
appletEndToWatchShortHomeButtonMessage == _appletCmdNoIO(IFunctions("OverlayApplet"), 1)
appletHomeButtonReaderLockAccessorGetEvent ==
  _appletGetSession("appletICommonStateGetter", 30, "ILockAccessor")
    \cup _appletGetEvent("ILockAccessor", 3)
appletPushToGeneralChannel == _appletCmdInStorage("appletICommonStateGetter", 20)
appletLockExit == _appletCmdNoIO("appletISelfController", 1)
appletUnlockExit == _appletCmdNoIO("appletISelfController", 2)
_appletWaitLibraryAppletLaunchableEvent == _appletGetEvent("appletISelfController", 9)
appletSetScreenShotPermission == AskService("appletISelfController", 10, 6, <<>>)
appletSetScreenShotImageOrientation == Since(3, AskService("appletISelfController", 19, 6, <<>>))
appletCreateManagedDisplayLayer == _appletCmdNoInOut64("appletISelfController", 40)
_appletCreateLibraryApplet(obj) ==
  CreatingSubservice(obj, AskService("appletILibraryAppletCreator", 0, 6, <<>>))
_appletGetIndirectLayerConsumerHandle(on) == AskService(on, 160, 6, <<"pid">>)
_appletHolderCreate ==
  _appletWaitLibraryAppletLaunchableEvent
    \cup _appletCreateLibraryApplet("AppletHolder")
    \cup _appletGetEvent("AppletHolder", 0)
    \cup Since(2, _appletGetIndirectLayerConsumerHandle("AppletHolder"))
appletHolderStart ==
  _appletWaitLibraryAppletLaunchableEvent \cup _appletCmdNoIO("AppletHolder", 10)
appletHolderRequestExit == _appletCmdNoIO("AppletHolder", 20)
appletHolderJoin == _appletCmdNoIO("AppletHolder", 30)
_appletHolderGetPopInteractiveOutDataEvent == _appletGetEvent("AppletHolder", 106)
appletHolderPushInData == _appletCmdInStorage("AppletHolder", 100)
appletHolderPopOutData == _appletCmdNoInOutStorage("AppletHolder", 101)
appletHolderPushExtraStorage == _appletCmdInStorage("AppletHolder", 102)
appletHolderPushInteractiveInData == _appletCmdInStorage("AppletHolder", 103)
appletHolderPopInteractiveOutData == _appletCmdNoInOutStorage("AppletHolder", 104)
_appletCreateTransferMemoryStorage(obj) ==
  CreatingSubservice(obj, AskService("appletILibraryAppletCreator", 11, 8, <<"copy">>))
appletCreateTransferMemoryStorage == _appletCreateTransferMemoryStorage("AppletStorage")
appletCreateHandleStorage ==
  Since(2, _appletCmdInHandle64("appletILibraryAppletCreator", 12, "AppletStorage"))
_appletStorageAccessorRW(on) ==
  AskService(on, 10, 6, <<"send", "in">>) \cup AskService(on, 11, 6, <<"recv", "out">>)
appletStorageGetSize ==
  _appletGetSession("AppletStorage", 0, "IStorageAccessor")
    \cup _appletCmdNoInOut64("IStorageAccessor", 0)
_appletStorageRW ==
  _appletGetSession("AppletStorage", 0, "IStorageAccessor")
    \cup _appletStorageAccessorRW("IStorageAccessor")
_appletStorageGetHandle(on) == AskService(on, 1, 4, <<>>)
appletStorageGetHandle ==
  Since(2,
    _appletGetSession("AppletStorage", 1, "ITransferStorageAccessor")
      \cup _appletStorageGetHandle("ITransferStorageAccessor"))

AppletRequests == UNION {
  appletSetFocusHandlingMode, appletExit, appletNotifyRunning, appletInitialize,
  appletPopLaunchParameter, appletCreateStorage, appletRequestLaunchApplication,
  appletRequestLaunchApplicationForQuest, appletGetDesiredLanguage, appletSetTerminateResult,
  appletSetMediaPlaybackState, appletBeginBlockingHomeButton, appletEndBlockingHomeButton,
  appletIsGamePlayRecordingSupported, _appletInitializeGamePlayRecording,
  appletSetGamePlayRecordingState, appletQueryApplicationPlayStatistics,
  appletBeginToWatchShortHomeButtonMessage, appletEndToWatchShortHomeButtonMessage,
  appletHomeButtonReaderLockAccessorGetEvent, appletPushToGeneralChannel, appletLockExit,
  appletUnlockExit, appletSetScreenShotPermission, appletSetScreenShotImageOrientation,
  appletCreateManagedDisplayLayer, _appletHolderCreate, appletHolderStart,
  appletHolderRequestExit, appletHolderJoin, _appletHolderGetPopInteractiveOutDataEvent,
  appletHolderPushInData, appletHolderPopOutData, appletHolderPushExtraStorage,
  appletHolderPushInteractiveInData, appletHolderPopInteractiveOutData,
  appletCreateTransferMemoryStorage, appletCreateHandleStorage, appletStorageGetSize,
  _appletStorageRW, appletStorageGetHandle}

-----------------------------------------------------------------------------
(* The requests of the services for accounts, settings and keys: acc.c,    *)
(* set.c and spl.c.                                                        *)

(* The session for a request, which is given with none. *)
_splGetEsSrv(F) == Since(4, On("splEsSrv", F)) \cup Before(4, On("splSrv", F))
_splGetFsSrv(F) == Since(4, On("splFsSrv", F)) \cup Before(4, On("splSrv", F))
_splGetRsaSrv(F) ==
  Since(4, UNION {On(s, F) : s \in {"splFsSrv", "splEsSrv", "splSslSrv"}})
    \cup Before(4, On("splSrv", F))
_splGetCryptoSrv(F) ==
  Since(4, UNION {On(s, F) :
                    s \in {"splManuSrv", "splFsSrv", "splEsSrv", "splSslSrv", "splCryptoSrv"}})
    \cup Before(4, On("splSrv", F))
_splGetGeneralSrv(F) == On("splSrv", F) \cup Since(4, _splGetCryptoSrv(F))

SetSysFlag == {7, 25, 27, 47, 65, 69, 73, 88, 95, 99, 101, 103, 111, 113, 115, 117, 141}

(* acc.c *)
accountGetUserCount == Ask("accSrv", 0, 4, <<>>)
_accountListAllUsers == Ask("accSrv", 2, 4, <<"out">>)
accountGetActiveUser == Ask("accSrv", 4, 4, <<>>)
accountGetProfile == Creating("AccountProfile", Ask("accSrv", 5, 8, <<>>))
accountProfileGet == Ask("AccountProfile", 1, 4, <<>>) \cup Ask("AccountProfile", 0, 4, <<"out">>)
accountProfileGetImageSize == Ask("AccountProfile", 10, 4, <<>>)
accountProfileLoadImage == Ask("AccountProfile", 11, 4, <<"recv">>)

(* set.c *)
setGetLanguageCode == Ask("setSrv", 0, 4, <<>>)
setGetAvailableLanguageCodeCount ==
  Since(4, Ask("setSrv", 6, 4, <<>>)) \cup Before(4, Ask("setSrv", 3, 4, <<>>))
setGetAvailableLanguageCodes ==
  Since(4, Ask("setSrv", 5, 4, <<"recv">>))
    \cup Before(4, Ask("setSrv", 1, 4, <<"out">>) \cup setGetAvailableLanguageCodeCount)
_setMakeLanguageCode == Ask("setSrv", 2, 6, <<>>)
setGetRegionCode == Ask("setSrv", 4, 4, <<>>)
setsysGetColorSetId == Ask("setsysSrv", 23, 4, <<>>)
setsysSetColorSetId == Ask("setsysSrv", 24, 6, <<>>)
setsysGetSettingsItemValue == Ask("setsysSrv", 38, 4, <<"in", "in", "recv">>)
setsysGetSettingsItemValueSize == Ask("setsysSrv", 37, 4, <<"in", "in">>)
setsysGetSerialNumber == Ask("setsysSrv", 68, 4, <<>>)
setsysGetFlag == UNION {Ask("setsysSrv", flag, 4, <<>>) : flag \in SetSysFlag}
setsysSetFlag == UNION {Ask("setsysSrv", flag + 1, 6, <<>>) : flag \in SetSysFlag}
_setsysGetFirmwareVersionImpl(cmd_id) == AskService("setsysSrv", cmd_id, 4, <<"out">>)
setsysGetFirmwareVersion ==
  Since(3, _setsysGetFirmwareVersionImpl(4)) \cup Before(3, _setsysGetFirmwareVersionImpl(3))
setsysBindFatalDirtyFlagEvent == Ask("setsysSrv", 93, 4, <<>>)
setsysGetFatalDirtyFlags == Ask("setsysSrv", 94, 4, <<>>)

(* spl.c *)
splGetConfig == _splGetGeneralSrv(Ask("", 0, 6, <<>>))
splUserExpMod == _splGetGeneralSrv(Ask("", 1, 4, <<"in", "in", "in", "out">>))
splSetConfig == _splGetGeneralSrv(Ask("", 5, 8, <<>>))
splGetRandomBytes == _splGetGeneralSrv(Ask("", 7, 4, <<"out">>))
splIsDevelopment == _splGetGeneralSrv(Ask("", 11, 4, <<>>))
splSetSharedData == _splGetGeneralSrv(Ask("", 24, 6, <<>>))
splGetSharedData == _splGetGeneralSrv(Ask("", 25, 4, <<>>))
splCryptoGenerateAesKek == _splGetCryptoSrv(Ask("", 2, 10, <<>>))
splCryptoLoadAesKey == _splGetCryptoSrv(Ask("", 3, 14, <<>>))
splCryptoGenerateAesKey == _splGetCryptoSrv(Ask("", 4, 12, <<>>))
splCryptoDecryptAesKey == _splGetCryptoSrv(Ask("", 14, 10, <<>>))
splCryptoCryptAesCtr == _splGetCryptoSrv(Ask("", 15, 8, <<"send", "recv">>))
splCryptoComputeCmac == _splGetCryptoSrv(Ask("", 16, 6, <<"in">>))
splCryptoLockAesEngine == _splGetCryptoSrv(Ask("", 21, 4, <<>>))
splCryptoUnlockAesEngine == _splGetCryptoSrv(Ask("", 22, 6, <<>>))
splCryptoGetSecurityEngineEvent == _splGetCryptoSrv(Ask("", 23, 4, <<>>))
splRsaDecryptPrivateKey == _splGetRsaSrv(Ask("", 13, 14, <<"in", "out">>))
_splImportSecureExpModKey(on, cmd_id) == Ask(on, cmd_id, 14, <<"in">>)
_splSecureExpMod(on, cmd_id) == Ask(on, cmd_id, 4, <<"in", "in", "out">>)
splSslLoadSecureExpModKey == _splImportSecureExpModKey("splSslSrv", 26)
splSslSecureExpMod == _splSecureExpMod("splSslSrv", 27)
splEsLoadRsaOaepKey == _splGetEsSrv(_splImportSecureExpModKey("", 17))
splEsUnwrapRsaOaepWrappedTitlekey == _splGetEsSrv(Ask("", 18, 6, <<"in", "in", "in">>))
splEsUnwrapAesWrappedTitlekey == _splGetEsSrv(Ask("", 20, 10, <<>>))
splEsLoadSecureExpModKey == _splImportSecureExpModKey("splEsSrv", 28)
splEsSecureExpMod == _splSecureExpMod("splEsSrv", 29)
splFsLoadSecureExpModKey == _splGetFsSrv(_splImportSecureExpModKey("", 9))
splFsSecureExpMod == _splGetFsSrv(_splSecureExpMod("", 10))
splFsGenerateSpecificAesKey == _splGetFsSrv(Ask("", 12, 10, <<>>))
splFsLoadTitlekey == _splGetFsSrv(Ask("", 19, 10, <<>>))
splFsGetPackage2Hash == Ask("splFsSrv", 31, 4, <<>>)
splManuEncryptRsaKeyForImport == Ask("splManuSrv", 30, 22, <<"in", "out">>)

SettingsRequests == UNION {
  accountGetUserCount, _accountListAllUsers, accountGetActiveUser, accountGetProfile,
  accountProfileGet, accountProfileGetImageSize, accountProfileLoadImage, setGetLanguageCode,
  setGetAvailableLanguageCodeCount, setGetAvailableLanguageCodes, _setMakeLanguageCode,
  setGetRegionCode, setsysGetColorSetId, setsysSetColorSetId, setsysGetSettingsItemValue,
  setsysGetSettingsItemValueSize, setsysGetSerialNumber, setsysGetFlag, setsysSetFlag,
  setsysGetFirmwareVersion, setsysBindFatalDirtyFlagEvent, setsysGetFatalDirtyFlags, splGetConfig,
  splUserExpMod, splSetConfig, splGetRandomBytes, splIsDevelopment, splSetSharedData,
  splGetSharedData, splCryptoGenerateAesKek, splCryptoLoadAesKey, splCryptoGenerateAesKey,
  splCryptoDecryptAesKey, splCryptoCryptAesCtr, splCryptoComputeCmac, splCryptoLockAesEngine,
  splCryptoUnlockAesEngine, splCryptoGetSecurityEngineEvent, splRsaDecryptPrivateKey,
  splSslLoadSecureExpModKey, splSslSecureExpMod, splEsLoadRsaOaepKey,
  splEsUnwrapRsaOaepWrappedTitlekey, splEsUnwrapAesWrappedTitlekey, splEsLoadSecureExpModKey,
  splEsSecureExpMod, splFsLoadSecureExpModKey, splFsSecureExpMod, splFsGenerateSpecificAesKey,
  splFsLoadTitlekey, splFsGetPackage2Hash, splManuEncryptRsaKeyForImport}

-----------------------------------------------------------------------------
All == AppletRequests \cup SettingsRequests
=============================================================================
