--------------------------- MODULE SystemCommands ---------------------------
(***************************************************************************)
(* The requests of the services for processes, power, clocks, pins, and    *)
(* USB devices and hosts.                                                  *)
(***************************************************************************)
EXTENDS IpcMessage

-----------------------------------------------------------------------------
(* The requests of the services for processes, power, clocks and pins:     *)
(* pm.c, ldr.c, ro.c, sm.c, smm.c, spsm.c, bpc.c, fatal.c, apm.c, psc.c,   *)
(* psm.c, pcv.c, gpio.c, i2c.c, time.c, pl.c and csrng.c.                  *)

Clocks == {"timeUserSystemClock", "timeNetworkSystemClock", "timeLocalSystemClock"}

(* pm.c *)
pmdmntGetDebugProcesses ==
  Since(5, Ask("pmdmntSrv", 0, 4, <<"recv">>)) \cup Before(5, Ask("pmdmntSrv", 1, 4, <<"recv">>))
pmdmntStartProcess ==
  Since(5, Ask("pmdmntSrv", 1, 6, <<>>)) \cup Before(5, Ask("pmdmntSrv", 2, 6, <<>>))
pmdmntGetTitlePid ==
  Since(5, Ask("pmdmntSrv", 2, 6, <<>>)) \cup Before(5, Ask("pmdmntSrv", 3, 6, <<>>))
pmdmntEnableDebugForTitleId ==
  Since(5, Ask("pmdmntSrv", 3, 6, <<>>)) \cup Before(5, Ask("pmdmntSrv", 4, 6, <<>>))
pminfoGetTitleId == Ask("pminfoSrv", 0, 6, <<>>)
pmdmntGetApplicationPid ==
  Since(5, Ask("pmdmntSrv", 4, 4, <<>>)) \cup Before(5, Ask("pmdmntSrv", 5, 4, <<>>))
pmdmntEnableDebugForApplication ==
  Since(5, Ask("pmdmntSrv", 5, 4, <<>>)) \cup Before(5, Ask("pmdmntSrv", 6, 4, <<>>))
pmdmntDisableDebug == Since(6, Ask("pmdmntSrv", 6, 4, <<>>))
pmshellLaunchProcess == Ask("pmshellSrv", 0, 10, <<>>)
pmshellTerminateProcessByProcessId == Ask("pmshellSrv", 1, 6, <<>>)
pmshellTerminateProcessByTitleId == Ask("pmshellSrv", 2, 6, <<>>)
pmshellGetProcessEvent == Ask("pmshellSrv", 3, 4, <<>>)
pmshellGetProcessEventInfo == Ask("pmshellSrv", 4, 4, <<>>)
pmshellFinalizeDeadProcess == Before(5, Ask("pmshellSrv", 5, 6, <<>>))
pmshellClearProcessExceptionOccurred == Before(5, Ask("pmshellSrv", 6, 6, <<>>))
pmshellNotifyBootFinished ==
  Since(5, Ask("pmshellSrv", 5, 4, <<>>)) \cup Before(5, Ask("pmshellSrv", 7, 4, <<>>))
pmshellGetApplicationPid ==
  Since(5, Ask("pmshellSrv", 6, 4, <<>>)) \cup Before(5, Ask("pmshellSrv", 8, 4, <<>>))
pmshellBoostSystemMemoryResourceLimit ==
  Since(4, Since(5, Ask("pmshellSrv", 7, 6, <<>>)) \cup Before(5, Ask("pmshellSrv", 9, 6, <<>>)))

(* ldr.c *)
_ldrAddTitleToLaunchQueue(on) == Ask(on, 0, 6, <<"in">>)
_ldrClearLaunchQueue(on) == Ask(on, 1, 4, <<>>)
ldrShellAddTitleToLaunchQueue == _ldrAddTitleToLaunchQueue("ldrShellSrv")
ldrShellClearLaunchQueue == _ldrClearLaunchQueue("ldrShellSrv")
ldrDmntAddTitleToLaunchQueue == _ldrAddTitleToLaunchQueue("ldrDmntSrv")
ldrDmntClearLaunchQueue == _ldrClearLaunchQueue("ldrDmntSrv")
ldrDmntGetModuleInfos == Ask("ldrDmntSrv", 2, 6, <<"out">>)
ldrPmCreateProcess == Ask("ldrPmSrv", 0, 8, <<"copy">>)
ldrPmGetProgramInfo == Ask("ldrPmSrv", 1, 8, <<"out">>)
ldrPmRegisterTitle == Ask("ldrPmSrv", 2, 8, <<>>)
ldrPmUnregisterTitle == Ask("ldrPmSrv", 3, 6, <<>>)

(* ro.c *)
ldrRoLoadNro == AskService("ldrRoSrv", 0, 14, <<"pid">>)
ldrRoUnloadNro == AskService("ldrRoSrv", 1, 8, <<"pid">>)
ldrRoLoadNrr == AskService("ldrRoSrv", 2, 10, <<"pid">>)
ldrRoUnloadNrr == AskService("ldrRoSrv", 3, 8, <<"pid">>)
_ldrRoInitialize == AskService("ldrRoSrv", 4, 4, <<"copy">>)
roDmntGetModuleInfos == AskService("roDmntSrv", 0, 6, <<"out">>)

(* sm.c *)
smGetServiceOriginal == Ask("smHandle", 1, 10, <<>>)
smInitialize == Ask("smHandle", 0, 10, <<"pid">>) \cup smGetServiceOriginal
smRegisterService == Ask("smHandle", 2, 8, <<>>)
smUnregisterService == Ask("smHandle", 3, 8, <<>>)

(* smm.c *)
smManagerRegisterProcess == Ask("smManagerSrv", 0, 6, <<"send", "send">>)
smManagerUnregisterProcess == Ask("smManagerSrv", 1, 6, <<>>)

(* spsm.c *)
spsmShutdown == AskService("spsmSrv", 3, 6, <<>>)
spsmPutErrorState == AskService("spsmSrv", 10, 4, <<>>)

(* bpc.c *)
bpcShutdownSystem == AskService("bpcSrv", 0, 4, <<>>)
bpcRebootSystem == AskService("bpcSrv", 1, 4, <<>>)
bpcGetSleepButtonState == AskService("bpcSrv", 6, 4, <<>>)

(* fatal.c *)
_fatalImpl(cmd_id, items) ==
  Ask("fatal:u", cmd_id, 8, items) \cup smInitialize \cup smGetServiceOriginal
fatalWithType == _fatalImpl(1, <<"pid">>)
fatalWithContext == _fatalImpl(2, <<"pid", "send">>)

(* apm.c *)
_apmGetSession(on, cmd_id, obj) == Creating(obj, Ask(on, cmd_id, 4, <<>>))
apmInitialize == _apmGetSession("apmSrv", 0, "apmISession")
apmSetPerformanceConfiguration == Ask("apmISession", 0, 6, <<>>)
apmGetPerformanceConfiguration == Ask("apmISession", 1, 6, <<>>)

(* psc.c *)
_pscPmModuleInitialize == AskService("PscPmModule", 0, 6, <<"send">>)
pscGetPmModule ==
  CreatingSubservice("PscPmModule", AskService("pscSrv", 0, 4, <<>>)) \cup _pscPmModuleInitialize
pscPmModuleGetRequest == AskService("PscPmModule", 1, 4, <<>>)
_pscPmModuleAcknowledge == AskService("PscPmModule", 2, 4, <<>>)
_pscPmModuleAcknowledgeEx == AskService("PscPmModule", 4, 6, <<>>)
pscPmModuleAcknowledge ==
  Since(6, _pscPmModuleAcknowledgeEx) \cup Before(6, _pscPmModuleAcknowledge)
pscPmModuleFinalize == AskService("PscPmModule", 3, 4, <<>>)

(* psm.c *)
_psmGetOutU32(cmd_id) == AskService("psmSrv", cmd_id, 4, <<>>)
psmGetBatteryChargePercentage == _psmGetOutU32(0)
psmGetChargerType == _psmGetOutU32(1)
psmGetBatteryVoltageState == _psmGetOutU32(12)
_psmOpenSession(obj) == CreatingSubservice(obj, AskService("psmSrv", 7, 4, <<>>))
_psmBindStateChangeEvent == AskService("PsmSession", 0, 4, <<>>)
_psmSetEventEnabled(cmd_id) == AskService("PsmSession", cmd_id, 6, <<>>)
_psmSetChargerTypeChangeEventEnabled == _psmSetEventEnabled(2)
_psmSetPowerSupplyChangeEventEnabled == _psmSetEventEnabled(3)
_psmSetBatteryVoltageStateChangeEventEnabled == _psmSetEventEnabled(4)
psmBindStateChangeEvent ==
  _psmOpenSession("PsmSession")
    \cup _psmSetChargerTypeChangeEventEnabled
    \cup _psmSetPowerSupplyChangeEventEnabled
    \cup _psmSetBatteryVoltageStateChangeEventEnabled
    \cup _psmBindStateChangeEvent
psmUnbindStateChangeEvent == AskService("PsmSession", 1, 4, <<>>)

(* pcv.c *)
pcvSetClockRate == AskService("pcvSrv", 2, 6, <<>>)
pcvGetClockRate == AskService("pcvSrv", 3, 6, <<>>)
pcvSetVoltageEnabled == AskService("pcvSrv", 8, 6, <<>>)
pcvGetVoltageEnabled == AskService("pcvSrv", 9, 6, <<>>)

(* gpio.c *)
gpioOpenSession == CreatingSubservice("GpioPadSession", AskService("gpioSrv", 1, 6, <<>>))
gpioPadSetDirection == AskService("GpioPadSession", 0, 6, <<>>)
gpioPadGetDirection == AskService("GpioPadSession", 1, 4, <<>>)
gpioPadSetValue == AskService("GpioPadSession", 8, 6, <<>>)
gpioPadGetValue == AskService("GpioPadSession", 9, 4, <<>>)

(* i2c.c *)
i2cOpenSession == CreatingSubservice("I2cSession", AskService("i2cSrv", 1, 6, <<>>))
i2csessionSendAuto == AskService("I2cSession", 10, 6, <<"send", "in">>)

(* time.c *)
_timeGetSession(cmd_id, obj) == Creating(obj, Ask("timeSrv", cmd_id, 4, <<>>))
timeInitialize ==
  _timeGetSession(0, "timeUserSystemClock")
    \cup _timeGetSession(1, "timeNetworkSystemClock")
    \cup _timeGetSession(3, "timeTimeZoneService")
    \cup _timeGetSession(4, "timeLocalSystemClock")
timeGetCurrentTime == UNION {Ask(srv, 0, 4, <<>>) : srv \in Clocks}
timeSetCurrentTime == UNION {Ask(srv, 1, 6, <<>>) : srv \in Clocks}
timeToCalendarTimeWithMyRule == Ask("timeTimeZoneService", 101, 6, <<>>)

(* pl.c *)
_plRequestLoad == Ask("plSrv", 0, 6, <<>>)
_plGetLoadState == Ask("plSrv", 1, 6, <<>>)
_plGetSize == Ask("plSrv", 2, 6, <<>>)
_plGetSharedMemoryAddressOffset == Ask("plSrv", 3, 6, <<>>)
_plGetSharedMemoryNativeHandle == Ask("plSrv", 4, 4, <<>>)
plGetSharedFont == Ask("plSrv", 5, 6, <<"recv", "recv", "recv">>)

(* csrng.c *)
csrngGetRandomBytes == Ask("csrngSrv", 0, 4, <<"recv">>)

ProcessRequests == UNION {
  pmdmntGetDebugProcesses, pmdmntStartProcess, pmdmntGetTitlePid, pmdmntEnableDebugForTitleId,
  pminfoGetTitleId, pmdmntGetApplicationPid, pmdmntEnableDebugForApplication, pmdmntDisableDebug,
  pmshellLaunchProcess, pmshellTerminateProcessByProcessId, pmshellTerminateProcessByTitleId,
  pmshellGetProcessEvent, pmshellGetProcessEventInfo, pmshellFinalizeDeadProcess,
  pmshellClearProcessExceptionOccurred, pmshellNotifyBootFinished, pmshellGetApplicationPid,
  pmshellBoostSystemMemoryResourceLimit, ldrShellAddTitleToLaunchQueue, ldrShellClearLaunchQueue,
  ldrDmntAddTitleToLaunchQueue, ldrDmntClearLaunchQueue, ldrDmntGetModuleInfos,
  ldrPmCreateProcess, ldrPmGetProgramInfo, ldrPmRegisterTitle, ldrPmUnregisterTitle, ldrRoLoadNro,
  ldrRoUnloadNro, ldrRoLoadNrr, ldrRoUnloadNrr, _ldrRoInitialize, roDmntGetModuleInfos,
  smGetServiceOriginal, smInitialize, smRegisterService, smUnregisterService,
  smManagerRegisterProcess, smManagerUnregisterProcess, spsmShutdown, spsmPutErrorState,
  bpcShutdownSystem, bpcRebootSystem, bpcGetSleepButtonState, fatalWithType, fatalWithContext,
  apmInitialize, apmSetPerformanceConfiguration, apmGetPerformanceConfiguration, pscGetPmModule,
  pscPmModuleGetRequest, pscPmModuleAcknowledge, pscPmModuleFinalize,
  psmGetBatteryChargePercentage, psmGetChargerType, psmGetBatteryVoltageState,
  psmBindStateChangeEvent, psmUnbindStateChangeEvent, pcvSetClockRate, pcvGetClockRate,
  pcvSetVoltageEnabled, pcvGetVoltageEnabled, gpioOpenSession, gpioPadSetDirection,
  gpioPadGetDirection, gpioPadSetValue, gpioPadGetValue, i2cOpenSession, i2csessionSendAuto,
  timeInitialize, timeGetCurrentTime, timeSetCurrentTime, timeToCalendarTimeWithMyRule,
  _plRequestLoad, _plGetLoadState, _plGetSize, _plGetSharedMemoryAddressOffset,
  _plGetSharedMemoryNativeHandle, plGetSharedFont, csrngGetRandomBytes}

-----------------------------------------------------------------------------
(* The requests of the services for USB devices and hosts: usbds.c and     *)
(* usbhs.c.                                                                *)

(* usbds.c *)
_usbDsBindDevice == AskService("usbDsSrv", 0, 6, <<>>)
_usbDsBindClientProcess == AskService("usbDsSrv", 1, 4, <<"copy">>)
_usbDsGetEvent(on, cmd_id) == AskService(on, cmd_id, 4, <<>>)
_usbDsCmdNoParams(on, cmd_id) == AskService(on, cmd_id, 4, <<>>)
usbDsClearDeviceData == _usbDsCmdNoParams("usbDsSrv", 5)
usbDsInitialize ==
  _usbDsBindDevice
    \cup _usbDsBindClientProcess
    \cup _usbDsGetEvent("usbDsSrv", 3)
    \cup Since(5, usbDsClearDeviceData)
usbDsDisable == _usbDsCmdNoParams("usbDsSrv", 11)
usbDsExit == Since(5, usbDsDisable)
usbDsGetState == AskService("usbDsSrv", 4, 4, <<>>)
usbDsSetVidPidBcd == AskService("usbDsSrv", 5, 4, <<"send">>)
_usbDsGetSession(on, cmd_id, items, obj) ==
  CreatingSubservice(obj, AskService(on, cmd_id, 4, items))
_usbDsPostBuffer(on, cmd_id) == AskService(on, cmd_id, 8, <<>>)
_usbDsGetReport(on, cmd_id) == AskService(on, cmd_id, 4, <<>>)
usbDsGetDsInterface ==
  _usbDsGetSession("usbDsSrv", 2, <<"send", "send">>, "UsbDsInterface")
    \cup UNION {_usbDsGetEvent("UsbDsInterface", id) : id \in {1, 7, 9}}
usbDsRegisterInterface ==
  CreatingSubservice("UsbDsInterface", AskService("usbDsSrv", 2, 6, <<>>))
    \cup UNION {_usbDsGetEvent("UsbDsInterface", id) : id \in {1, 7, 9}}
usbDsRegisterInterfaceEx ==
  CreatingSubservice("UsbDsInterface", AskService("usbDsSrv", 2, 6, <<>>))
    \cup UNION {_usbDsGetEvent("UsbDsInterface", id) : id \in {1, 7, 9}}
_usbDsAddUsbStringDescriptorRaw == AskService("usbDsSrv", 6, 4, <<"send">>)
usbDsDeleteUsbStringDescriptor == AskService("usbDsSrv", 7, 6, <<>>)
usbDsSetUsbDeviceDescriptor == AskService("usbDsSrv", 8, 6, <<"send">>)
usbDsSetBinaryObjectStore == AskService("usbDsSrv", 9, 4, <<"send">>)
usbDsEnable == _usbDsCmdNoParams("usbDsSrv", 10)
usbDsInterface_GetSetupPacket == AskService("UsbDsInterface", 2, 4, <<"recv">>)
usbDsInterface_GetDsEndpoint ==
  _usbDsGetSession("UsbDsInterface", 0, <<"send">>, "UsbDsEndpoint")
    \cup _usbDsGetEvent("UsbDsEndpoint", 2)
usbDsInterface_EnableInterface == _usbDsCmdNoParams("UsbDsInterface", 3)
usbDsInterface_DisableInterface == _usbDsCmdNoParams("UsbDsInterface", 4)
usbDsInterface_CtrlInPostBufferAsync == _usbDsPostBuffer("UsbDsInterface", 5)
usbDsInterface_CtrlOutPostBufferAsync == _usbDsPostBuffer("UsbDsInterface", 6)
usbDsInterface_GetCtrlInReportData == _usbDsGetReport("UsbDsInterface", 8)
usbDsInterface_GetCtrlOutReportData == _usbDsGetReport("UsbDsInterface", 10)
usbDsInterface_StallCtrl == _usbDsCmdNoParams("UsbDsInterface", 11)
usbDsInterface_RegisterEndpoint ==
  CreatingSubservice("UsbDsEndpoint", AskService("UsbDsInterface", 0, 6, <<>>))
    \cup _usbDsGetEvent("UsbDsEndpoint", 2)
usbDsInterface_AppendConfigurationData == AskService("UsbDsInterface", 12, 6, <<"send">>)
usbDsEndpoint_PostBufferAsync == _usbDsPostBuffer("UsbDsEndpoint", 0)
usbDsEndpoint_Cancel == _usbDsCmdNoParams("UsbDsEndpoint", 1)
usbDsEndpoint_GetReportData == _usbDsGetReport("UsbDsEndpoint", 3)
usbDsEndpoint_Stall == _usbDsCmdNoParams("UsbDsEndpoint", 4)
usbDsEndpoint_SetZlt == AskService("UsbDsEndpoint", 5, 6, <<>>)

(* usbhs.c *)
_usbHsBindClientProcess == AskService("usbHsSrv", 0, 4, <<"copy">>)
_usbHsGetEvent(on, cmd_id) == AskService(on, cmd_id, 4, <<>>)
usbHsInitialize ==
  Since(2, _usbHsBindClientProcess \cup _usbHsGetEvent("usbHsSrv", 6))
    \cup Before(2, _usbHsGetEvent("usbHsSrv", 5))
_usbHsCmdNoIO(on, cmd_id) == AskService(on, cmd_id, 4, <<>>)
_usbHsQueryInterfaces(base_cmdid) ==
  Since(2, AskService("usbHsSrv", base_cmdid + 1, 8, <<"recv">>))
    \cup Before(2, AskService("usbHsSrv", base_cmdid, 8, <<"recv">>))
usbHsQueryAllInterfaces == _usbHsQueryInterfaces(0)
usbHsQueryAvailableInterfaces == _usbHsQueryInterfaces(1)
usbHsQueryAcquiredInterfaces ==
  Since(2, AskService("usbHsSrv", 3, 4, <<"recv">>))
    \cup Before(2, AskService("usbHsSrv", 2, 4, <<"recv">>))
usbHsCreateInterfaceAvailableEvent ==
  Since(2, AskService("usbHsSrv", 4, 10, <<>>)) \cup Before(2, AskService("usbHsSrv", 3, 10, <<>>))
usbHsDestroyInterfaceAvailableEvent ==
  Since(2, AskService("usbHsSrv", 5, 6, <<>>)) \cup Before(2, AskService("usbHsSrv", 4, 6, <<>>))
usbHsAcquireUsbIf ==
  CreatingSubservice("UsbHsClientIfSession",
    Before(2, AskService("usbHsSrv", 6, 6, <<"recv">>))
      \cup Since(2, Before(3, AskService("usbHsSrv", 7, 6, <<"recv">>)))
      \cup Since(3, AskService("usbHsSrv", 7, 6, <<"recv", "recv">>)))
    \cup _usbHsGetEvent("UsbHsClientIfSession", 0)
    \cup Since(2, _usbHsGetEvent("UsbHsClientIfSession", 6))
_usbHsIfGetInf(cmd_id) == AskService("UsbHsClientIfSession", cmd_id, 6, <<"recv">>)
usbHsIfSetInterface == _usbHsIfGetInf(1)
usbHsIfGetAlternateInterface == _usbHsIfGetInf(3)
usbHsIfGetInterface == AskService("UsbHsClientIfSession", 2, 4, <<"recv">>)
usbHsIfGetCurrentFrame ==
  Since(2, AskService("UsbHsClientIfSession", 4, 4, <<>>))
    \cup Before(2, AskService("UsbHsClientIfSession", 5, 4, <<>>))
_usbHsIfSubmitControlRequest ==
  AskService("UsbHsClientIfSession", 6, 7, <<"recv">>)
    \cup AskService("UsbHsClientIfSession", 7, 7, <<"send">>)
_usbHsIfCtrlXferAsync == AskService("UsbHsClientIfSession", 5, 8, <<>>)
_usbHsIfGetCtrlXferReport == AskService("UsbHsClientIfSession", 7, 4, <<"recv">>)
usbHsIfCtrlXfer ==
  Before(2, _usbHsIfSubmitControlRequest)
    \cup Since(2, _usbHsIfCtrlXferAsync \cup _usbHsIfGetCtrlXferReport)
usbHsIfOpenUsbEp ==
  CreatingSubservice("UsbHsClientEpSession",
    Since(2, AskService("UsbHsClientIfSession", 9, 10, <<>>))
      \cup Before(2, AskService("UsbHsClientIfSession", 4, 10, <<>>)))
    \cup Since(2,
           _usbHsCmdNoIO("UsbHsClientEpSession", 3)
             \cup _usbHsGetEvent("UsbHsClientEpSession", 2))
usbHsIfResetDevice == _usbHsCmdNoIO("UsbHsClientIfSession", 8)
usbHsEpClose ==
  Since(2, _usbHsCmdNoIO("UsbHsClientEpSession", 1))
    \cup Before(2, _usbHsCmdNoIO("UsbHsClientEpSession", 3))
_usbHsEpSubmitRequest ==
  AskService("UsbHsClientEpSession", 1, 6, <<"recv">>)
    \cup AskService("UsbHsClientEpSession", 0, 6, <<"send">>)
_usbHsEpPostBufferAsync == AskService("UsbHsClientEpSession", 4, 10, <<>>)
_usbHsEpGetXferReport == AskService("UsbHsClientEpSession", 5, 6, <<"recv">>)
usbHsEpPostBuffer ==
  Before(2, _usbHsEpSubmitRequest)
    \cup Since(2, _usbHsEpPostBufferAsync \cup _usbHsEpGetXferReport)

(* What usbds.h says was removed in 5.0.0 and added in it; the functions    *)
(* themselves do not ask for the version.                                  *)
Removed == usbDsGetDsInterface \cup usbDsSetVidPidBcd \cup usbDsInterface_GetDsEndpoint
Added ==
  usbDsRegisterInterface
    \cup usbDsRegisterInterfaceEx
    \cup usbDsClearDeviceData
    \cup _usbDsAddUsbStringDescriptorRaw
    \cup usbDsDeleteUsbStringDescriptor
    \cup usbDsSetUsbDeviceDescriptor
    \cup usbDsSetBinaryObjectStore
    \cup usbDsEnable
    \cup usbDsDisable
    \cup usbDsInterface_RegisterEndpoint
    \cup usbDsInterface_AppendConfigurationData

Kept == UNION {
  usbDsInitialize, usbDsExit, usbDsGetState, usbDsInterface_GetSetupPacket,
  usbDsInterface_EnableInterface, usbDsInterface_DisableInterface,
  usbDsInterface_CtrlInPostBufferAsync, usbDsInterface_CtrlOutPostBufferAsync,
  usbDsInterface_GetCtrlInReportData, usbDsInterface_GetCtrlOutReportData,
  usbDsInterface_StallCtrl, usbDsEndpoint_PostBufferAsync, usbDsEndpoint_Cancel,
  usbDsEndpoint_GetReportData, usbDsEndpoint_Stall, usbDsEndpoint_SetZlt, usbHsInitialize,
  usbHsQueryAllInterfaces, usbHsQueryAvailableInterfaces, usbHsQueryAcquiredInterfaces,
  usbHsCreateInterfaceAvailableEvent, usbHsDestroyInterfaceAvailableEvent, usbHsAcquireUsbIf,
  usbHsIfSetInterface, usbHsIfGetAlternateInterface, usbHsIfGetInterface, usbHsIfGetCurrentFrame,
  usbHsIfCtrlXfer, usbHsIfOpenUsbEp, usbHsIfResetDevice, usbHsEpClose, usbHsEpPostBuffer}

UsbRequests == Removed \cup Added \cup Kept

(* What only functions make that version v does not have. *)
Absent(v) == IF v < 5 THEN Added \ (Removed \cup Kept) ELSE Removed \ (Added \cup Kept)

-----------------------------------------------------------------------------
All == ProcessRequests \cup UsbRequests
=============================================================================
