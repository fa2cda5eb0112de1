--------------------------- MODULE MediaCommands ----------------------------
(***************************************************************************)
(* The requests of the services for sound, displays, pictures, graphics and *)
(* input devices.                                                          *)
(***************************************************************************)
EXTENDS IpcMessage

-----------------------------------------------------------------------------
(* The requests of the services for sound: audin.c, audout.c, audren.c,    *)
(* auddev.c and hwopus.c.                                                  *)

(* audin.c *)
audinListAudioIns == Ask("audinSrv", 0, 4, <<"recv">>)
audinOpenAudioIn ==
  Creating("audinIAudioIn", Ask("audinSrv", 1, 8, <<"pid", "copy", "send", "recv">>))
audinGetAudioInState == Ask("audinIAudioIn", 0, 4, <<>>)
audinStartAudioIn == Ask("audinIAudioIn", 1, 4, <<>>)
audinStopAudioIn == Ask("audinIAudioIn", 2, 4, <<>>)
audinAppendAudioInBuffer == Ask("audinIAudioIn", 3, 6, <<"send">>)
_audinRegisterBufferEvent == Ask("audinIAudioIn", 4, 4, <<>>)
audinGetReleasedAudioInBuffer == Ask("audinIAudioIn", 5, 4, <<"recv">>)
audinContainsAudioInBuffer == Ask("audinIAudioIn", 6, 6, <<>>)

(* audout.c *)
audoutListAudioOuts == Ask("audoutSrv", 0, 4, <<"recv">>)
audoutOpenAudioOut ==
  Creating("audoutIAudioOut", Ask("audoutSrv", 1, 8, <<"pid", "copy", "send", "recv">>))
audoutGetAudioOutState == Ask("audoutIAudioOut", 0, 4, <<>>)
audoutStartAudioOut == Ask("audoutIAudioOut", 1, 4, <<>>)
audoutStopAudioOut == Ask("audoutIAudioOut", 2, 4, <<>>)
audoutAppendAudioOutBuffer == Ask("audoutIAudioOut", 3, 6, <<"send">>)
_audoutRegisterBufferEvent == Ask("audoutIAudioOut", 4, 4, <<>>)
audoutGetReleasedAudioOutBuffer == Ask("audoutIAudioOut", 5, 4, <<"recv">>)
audoutContainsAudioOutBuffer == Ask("audoutIAudioOut", 6, 6, <<>>)

(* audren.c *)
_audrenOpenAudioRenderer(on) ==
  Creating("audrenIAudioRenderer", Ask(on, 0, 22, <<"pid", "copy", "copy">>))
_audrenGetWorkBufferSize(on) == Ask(on, 1, 18, <<>>)
_audrenQuerySystemEvent == Ask("audrenIAudioRenderer", 7, 4, <<>>)
audrenInitialize ==
  _audrenGetWorkBufferSize("audrenMgrSrv")
    \cup _audrenOpenAudioRenderer("audrenMgrSrv")
    \cup _audrenQuerySystemEvent
audrenGetState == Ask("audrenIAudioRenderer", 3, 4, <<>>)
audrenRequestUpdateAudioRenderer == Ask("audrenIAudioRenderer", 4, 4, <<"send", "recv", "recv">>)
audrenStartAudioRenderer == Ask("audrenIAudioRenderer", 5, 4, <<>>)
audrenStopAudioRenderer == Ask("audrenIAudioRenderer", 6, 4, <<>>)
audrenSetAudioRendererRenderingTimeLimit == Ask("audrenIAudioRenderer", 8, 6, <<>>)

(* auddev.c *)
_auddevGetAudioDeviceService(on, obj) == CreatingSubservice(obj, AskService(on, 2, 6, <<>>))
auddevInitialize == _auddevGetAudioDeviceService("audrenMgrSrv", "auddevIAudioDevice")
auddevListAudioDeviceName ==
  Before(3, AskService("auddevIAudioDevice", 0, 4, <<"recv">>))
    \cup Since(3, AskService("auddevIAudioDevice", 6, 4, <<"recv", "out">>))
auddevSetAudioDeviceOutputVolume ==
  Before(3, AskService("auddevIAudioDevice", 1, 6, <<"send">>))
    \cup Since(3, AskService("auddevIAudioDevice", 7, 6, <<"send", "in">>))
auddevGetAudioDeviceOutputVolume ==
  Before(3, AskService("auddevIAudioDevice", 2, 4, <<"send">>))
    \cup Since(3, AskService("auddevIAudioDevice", 8, 4, <<"send", "in">>))

(* hwopus.c *)
_hwopusInitialize(on, obj) == CreatingSubservice(obj, AskService(on, 0, 8, <<"copy">>))
_hwopusGetWorkBufferSize(on) == AskService(on, 1, 6, <<>>)
hwopusDecoderInitialize ==
  _hwopusGetWorkBufferSize("hwopusMgrSrv") \cup _hwopusInitialize("hwopusMgrSrv", "HwopusDecoder")
_hwopusOpenHardwareOpusDecoderForMultiStream(on, obj) ==
  CreatingSubservice(obj, AskService(on, 2, 6, <<"copy", "in">>))
_hwopusGetWorkBufferSizeForMultiStream(on) == AskService(on, 3, 4, <<"in">>)
hwopusDecoderMultistreamInitialize ==
  Since(3,
    _hwopusGetWorkBufferSizeForMultiStream("hwopusMgrSrv")
      \cup _hwopusOpenHardwareOpusDecoderForMultiStream("hwopusMgrSrv", "HwopusDecoder"))
_hwopusDecodeInterleavedWithPerfOld ==
  AskService("HwopusDecoder", 4, 4, <<"send", "recv">>)
    \cup AskService("HwopusDecoder", 5, 4, <<"send", "recv">>)
_hwopusDecodeInterleaved ==
  AskService("HwopusDecoder", 6, 6, <<"send", "recv">>)
    \cup AskService("HwopusDecoder", 7, 6, <<"send", "recv">>)
hwopusDecodeInterleaved ==
  Since(6, _hwopusDecodeInterleaved)
    \cup Since(4, Before(6, _hwopusDecodeInterleavedWithPerfOld))
    \cup Before(4, UNION {AskService("HwopusDecoder", id, 4, <<"send", "recv">>) : id \in {0, 2}})

AudioRequests == UNION {
  audinListAudioIns, audinOpenAudioIn, audinGetAudioInState, audinStartAudioIn, audinStopAudioIn,
  audinAppendAudioInBuffer, _audinRegisterBufferEvent, audinGetReleasedAudioInBuffer,
  audinContainsAudioInBuffer, audoutListAudioOuts, audoutOpenAudioOut, audoutGetAudioOutState,
  audoutStartAudioOut, audoutStopAudioOut, audoutAppendAudioOutBuffer, _audoutRegisterBufferEvent,
  audoutGetReleasedAudioOutBuffer, audoutContainsAudioOutBuffer, audrenInitialize, audrenGetState,
  audrenRequestUpdateAudioRenderer, audrenStartAudioRenderer, audrenStopAudioRenderer,
  audrenSetAudioRendererRenderingTimeLimit, auddevInitialize, auddevListAudioDeviceName,
  auddevSetAudioDeviceOutputVolume, auddevGetAudioDeviceOutputVolume, hwopusDecoderInitialize,
  hwopusDecoderMultistreamInitialize, hwopusDecodeInterleaved}

-----------------------------------------------------------------------------
(* The requests of the services for displays, pictures and graphics: vi.c, *)
(* binder.c, capssc.c, capssu.c, lbl.c and nv.c.                           *)

ViServiceType == [u |-> 0, s |-> 1, m |-> 2]

(* Requests that may block go to a session of their own. *)
NvSessions == {"nvSrv", "nvSrvClone"}

(* vi.c *)
_viGetSession(on, cmd_id, words, obj) == Creating(obj, Ask(on, cmd_id, words, <<>>))
_viGetSessionNoParams(on, cmd_id, obj) == _viGetSession(on, cmd_id, 4, obj)
viInitialize ==
  UNION {_viGetSession("vi:" \o t, ViServiceType[t], 6, "viIApplicationDisplayService") :
           t \in DOMAIN ViServiceType}
    \cup _viGetSessionNoParams("viIApplicationDisplayService", 100, "viIHOSBinderDriverRelay")
    \cup _viGetSessionNoParams("viIApplicationDisplayService", 101, "viISystemDisplayService")
    \cup _viGetSessionNoParams("viIApplicationDisplayService", 102, "viIManagerDisplayService")
    \cup Since(2,
           _viGetSessionNoParams("viIApplicationDisplayService", 103, "viIHOSBinderDriverIndirect"))
viOpenDisplay == Ask("viIApplicationDisplayService", 1010, 20, <<>>)
viCloseDisplay == Ask("viIApplicationDisplayService", 1020, 6, <<>>)
viGetDisplayResolution == Ask("viIApplicationDisplayService", 1102, 6, <<>>)
viGetDisplayLogicalResolution == Ask("viISystemDisplayService", 1203, 6, <<>>)
viSetDisplayMagnification == Since(3, Ask("viISystemDisplayService", 1204, 10, <<>>))
viGetDisplayVsyncEvent == Ask("viIApplicationDisplayService", 5202, 6, <<>>)
viSetDisplayPowerState == Ask("viIManagerDisplayService", 4205, 8, <<>>)
viSetDisplayAlpha == Ask("viIManagerDisplayService", 4201, 8, <<>>)
viGetDisplayMinimumZ == Ask("viISystemDisplayService", 1200, 6, <<>>)
viGetDisplayMaximumZ == Ask("viISystemDisplayService", 1202, 6, <<>>)
viCreateManagedLayer == Ask("viIManagerDisplayService", 2010, 10, <<>>)
viSetContentVisibility == Ask("viIManagerDisplayService", 7000, 6, <<>>)
_viOpenLayer == Ask("viIApplicationDisplayService", 2020, 24, <<"pid", "recv">>)
_viCreateStrayLayer ==
  Ask("viIApplicationDisplayService", 2030, 8, <<"recv">>)
    \cup Before(7, Ask("viISystemDisplayService", 2312, 8, <<"recv">>))
    \cup Since(7, Ask("viIManagerDisplayService", 2012, 8, <<"recv">>))
viSetLayerSize == Ask("viISystemDisplayService", 2203, 10, <<>>)
viSetLayerZ == Ask("viISystemDisplayService", 2205, 8, <<>>)
viSetLayerPosition == Ask("viISystemDisplayService", 2201, 8, <<>>)
viCloseLayer ==
  Ask("viIApplicationDisplayService", 2021, 6, <<>>)
    \cup Ask("viIApplicationDisplayService", 2031, 6, <<>>)
viSetLayerScalingMode == Ask("viIApplicationDisplayService", 2101, 8, <<>>)
viGetIndirectLayerImageMap == Ask("viIApplicationDisplayService", 2450, 12, <<"pid", "recv">>)
viGetIndirectLayerImageRequiredMemoryInfo == Ask("viIApplicationDisplayService", 2460, 8, <<>>)

(* binder.c *)
_binderTransactParcel == Ask("viIHOSBinderDriverRelay", 0, 8, <<"send", "recv">>)
_binderTransactParcelAuto == Ask("viIHOSBinderDriverRelay", 3, 7, <<"send", "in", "recv", "out">>)
binderTransactParcel == Since(3, _binderTransactParcelAuto) \cup Before(3, _binderTransactParcel)
binderAdjustRefcount == Ask("viIHOSBinderDriverRelay", 1, 8, <<>>)
binderGetNativeHandle == Ask("viIHOSBinderDriverRelay", 2, 6, <<>>)

(* capssc.c *)
capsscCaptureScreenshot == AskService("capsscSrv", 2, 16, <<"recv">>)

(* capssu.c *)
_capssuSaveScreenShotEx0 == AskService("capssuSrv", 203, 24, <<"pid", "send">>)

(* lbl.c *)
_lblCmdNoIO(cmd_id) == AskService("lblSrv", cmd_id, 4, <<>>)
_lblSwitchBacklight(cmd_id) == AskService("lblSrv", cmd_id, 6, <<>>)
lblSwitchBacklightOn == _lblSwitchBacklight(6)
lblSwitchBacklightOff == _lblSwitchBacklight(7)
lblSetCurrentBrightnessSetting == AskService("lblSrv", 2, 6, <<>>)
lblGetCurrentBrightnessSetting == AskService("lblSrv", 3, 4, <<>>)
lblEnableAutoBrightnessControl == _lblCmdNoIO(12)
lblDisableAutoBrightnessControl == _lblCmdNoIO(13)
lblIsAutoBrightnessControlEnabled == AskService("lblSrv", 14, 4, <<>>)

(* nv.c *)
_nvInitialize == Ask("nvSrv", 3, 6, <<"copy", "copy">>)
_nvSetClientPID == Ask("nvSrv", 8, 6, <<"pid">>)
nvOpen == Ask("nvSrv", 0, 4, <<"send">>)
nvIoctl == UNION {Ask(srv, 1, 6, <<"send", "in", "recv", "out">>) : srv \in NvSessions}
nvIoctl2 ==
  UNION {Ask(srv, 11, 6, <<"send", "in", "send", "in", "recv", "out">>) : srv \in NvSessions}
nvClose == Ask("nvSrv", 2, 6, <<>>)
nvQueryEvent == Ask("nvSrv", 4, 6, <<>>)

DisplayRequests == UNION {
  viInitialize, viOpenDisplay, viCloseDisplay, viGetDisplayResolution,
  viGetDisplayLogicalResolution, viSetDisplayMagnification, viGetDisplayVsyncEvent,
  viSetDisplayPowerState, viSetDisplayAlpha, viGetDisplayMinimumZ, viGetDisplayMaximumZ,
  viCreateManagedLayer, viSetContentVisibility, _viOpenLayer, _viCreateStrayLayer, viSetLayerSize,
  viSetLayerZ, viSetLayerPosition, viCloseLayer, viSetLayerScalingMode,
  viGetIndirectLayerImageMap, viGetIndirectLayerImageRequiredMemoryInfo, binderTransactParcel,
  binderAdjustRefcount, binderGetNativeHandle, capsscCaptureScreenshot, _capssuSaveScreenShotEx0,
  lblSwitchBacklightOn, lblSwitchBacklightOff, lblSetCurrentBrightnessSetting,
  lblGetCurrentBrightnessSetting, lblEnableAutoBrightnessControl, lblDisableAutoBrightnessControl,
  lblIsAutoBrightnessControlEnabled, _nvInitialize, _nvSetClientPID, nvOpen, nvIoctl, nvIoctl2,
  nvClose, nvQueryEvent}

-----------------------------------------------------------------------------
(* The requests of the services for input devices: hid.c, hidsys.c, irs.c  *)
(* and nfc.c.                                                              *)

(* hid.c *)
_hidCmdWithNoInput(cmd_id) == Ask("hidSrv", cmd_id, 6, <<"pid">>)
_hidDeactivateNpad == _hidCmdWithNoInput(104)
_hidCmdWithInputU64(cmd_id) == Ask("hidSrv", cmd_id, 8, <<"pid">>)
hidSetNpadJoyHoldType == _hidCmdWithInputU64(120)
hidExit == hidSetNpadJoyHoldType \cup _hidDeactivateNpad
_hidCreateAppletResource(on, obj) == Creating(obj, Ask(on, 0, 6, <<"pid">>))
_hidGetSharedMemoryHandle(on) == Ask(on, 0, 4, <<>>)
hidSetSupportedNpadIdType == Ask("hidSrv", 102, 6, <<"pid", "in">>)
_hidCmdWithInputU32(cmd_id) == Ask("hidSrv", cmd_id, 8, <<"pid">>)
hidSetSupportedNpadStyleSet == _hidCmdWithInputU32(100)
_hidActivateNpad == _hidCmdWithNoInput(103)
hidInitialize ==
  _hidCreateAppletResource("hidSrv", "hidIAppletResource")
    \cup _hidGetSharedMemoryHandle("hidIAppletResource")
    \cup _hidActivateNpad
    \cup hidSetSupportedNpadStyleSet
    \cup hidSetSupportedNpadIdType
    \cup hidSetNpadJoyHoldType
hidAcquireNpadStyleSetUpdateEventHandle == Ask("hidSrv", 106, 10, <<"pid">>)
hidSetNpadJoyAssignmentModeSingleByDefault == _hidCmdWithInputU32(122)
hidSetNpadJoyAssignmentModeDual == _hidCmdWithInputU32(124)
hidMergeSingleJoyAsDualJoy == Ask("hidSrv", 125, 8, <<"pid">>)
_hidCreateActiveVibrationDeviceList(obj) == Creating(obj, Ask("hidSrv", 203, 4, <<>>))
_hidActivateVibrationDevice(on) == Ask(on, 0, 6, <<>>)
hidGetVibrationDeviceInfo == Ask("hidSrv", 200, 6, <<>>)
hidSendVibrationValue == Ask("hidSrv", 201, 12, <<"pid">>)
hidGetActualVibrationValue == Ask("hidSrv", 202, 8, <<"pid">>)
hidPermitVibration == Ask("hidSrv", 204, 6, <<>>)
hidIsVibrationPermitted == Ask("hidSrv", 205, 4, <<>>)
hidSendVibrationValues == Ask("hidSrv", 206, 6, <<"in", "in">>)
hidInitializeVibrationDevices ==
  _hidCreateActiveVibrationDeviceList("IActiveVibrationDeviceList")
    \cup _hidActivateVibrationDevice("IActiveVibrationDeviceList")
hidStartSixAxisSensor == _hidCmdWithInputU32(66)
hidStopSixAxisSensor == _hidCmdWithInputU32(67)

(* hidsys.c *)
hidsysEnableAppletToGetInput == AskService("hidsysSrv", 503, 8, <<>>)
_hidsysCmdWithResIdAndPid(cmd_id) == AskService("hidsysSrv", cmd_id, 6, <<"pid">>)
_hidsysGetHandle(cmd_id) == AskService("hidsysSrv", cmd_id, 6, <<"pid">>)
_hidsysGetEvent(cmd_id) == _hidsysGetHandle(cmd_id)
hidsysAcquireHomeButtonEventHandle == _hidsysGetEvent(101)
hidsysAcquireCaptureButtonEventHandle == _hidsysGetEvent(141)
hidsysAcquireSleepButtonEventHandle == _hidsysGetEvent(121)
hidsysActivateHomeButton == _hidsysCmdWithResIdAndPid(111)
hidsysActivateSleepButton == _hidsysCmdWithResIdAndPid(131)
hidsysActivateCaptureButton == _hidsysCmdWithResIdAndPid(151)

(* irs.c *)
irsActivateIrsensor == Ask("irsSrv", 302, 6, <<"pid">>) \cup Ask("irsSrv", 303, 6, <<"pid">>)
_irsGetIrsensorSharedMemoryHandle == Ask("irsSrv", 304, 6, <<"pid">>)
_irsStopImageProcessor == Ask("irsSrv", 305, 8, <<"pid">>)
_irsRunImageTransferProcessor == Ask("irsSrv", 308, 16, <<"pid", "copy">>)
_irsGetImageTransferProcessorState == Ask("irsSrv", 309, 8, <<"pid", "recv">>)
irsGetIrCameraHandle == Ask("irsSrv", 311, 6, <<>>)
_irsSuspendImageProcessor == Ask("irsSrv", 313, 8, <<"pid">>)

(* nfc.c *)
_nfpuInterfaceCmdNoInOut(on, cmd_id) == AskService(on, cmd_id, 4, <<>>)
_nfpuInterfaceFinalize(on, cmd_id) == _nfpuInterfaceCmdNoInOut(on, cmd_id)
nfpuExit ==
  _nfpuInterfaceFinalize("nfpuInterface", 1)
    \cup Since(4, _nfpuInterfaceFinalize("nfcuInterface", 1))
    \cup Before(4, _nfpuInterfaceFinalize("nfcuInterface", 401))
_nfpuCreateInterface(on, obj) == CreatingSubservice(obj, AskService(on, 0, 4, <<>>))
_nfpuInterfaceInitialize(on, cmd_id) == AskService(on, cmd_id, 8, <<"send", "pid">>)
nfpuInitialize ==
  _nfpuCreateInterface("nfpuSrv", "nfpuInterface")
    \cup _nfpuInterfaceInitialize("nfpuInterface", 0)
    \cup _nfpuCreateInterface("nfcuSrv", "nfcuInterface")
    \cup Since(4, _nfpuInterfaceInitialize("nfcuInterface", 0))
    \cup Before(4, _nfpuInterfaceInitialize("nfcuInterface", 400))
    \cup nfpuExit
_nfpuInterfaceCmdInIdNoOut(on, cmd_id) == AskService(on, cmd_id, 6, <<>>)
_nfpuInterfaceCmdInIdOutEvent(on, cmd_id) == AskService(on, cmd_id, 6, <<>>)
_nfpuInterfaceCmdInIdOutBuffer(on, cmd_id) == AskService(on, cmd_id, 6, <<"out">>)
nfpuStartDetection == _nfpuInterfaceCmdInIdNoOut("nfpuInterface", 3)
nfpuStopDetection == _nfpuInterfaceCmdInIdNoOut("nfpuInterface", 4)
nfpuAttachActivateEvent == _nfpuInterfaceCmdInIdOutEvent("nfpuInterface", 17)
nfpuAttachDeactivateEvent == _nfpuInterfaceCmdInIdOutEvent("nfpuInterface", 18)
nfpuAttachAvailabilityChangeEvent == AskService("nfpuInterface", 23, 4, <<>>)
nfpuGetState == AskService("nfpuInterface", 19, 4, <<>>)
nfpuGetDeviceState == AskService("nfpuInterface", 20, 6, <<>>)
nfpuListDevices == AskService("nfpuInterface", 2, 4, <<"out">>)
nfpuGetNpadId == AskService("nfpuInterface", 21, 6, <<>>)
nfpuMount == AskService("nfpuInterface", 5, 8, <<>>)
nfpuUnmount == _nfpuInterfaceCmdInIdNoOut("nfpuInterface", 6)
nfpuGetTagInfo == _nfpuInterfaceCmdInIdOutBuffer("nfpuInterface", 13)
nfpuGetRegisterInfo == _nfpuInterfaceCmdInIdOutBuffer("nfpuInterface", 14)
nfpuGetCommonInfo == _nfpuInterfaceCmdInIdOutBuffer("nfpuInterface", 15)
nfpuGetModelInfo == _nfpuInterfaceCmdInIdOutBuffer("nfpuInterface", 16)
nfpuOpenApplicationArea == AskService("nfpuInterface", 7, 8, <<>>)
nfpuGetApplicationArea == AskService("nfpuInterface", 8, 6, <<"recv">>)
nfpuSetApplicationArea == AskService("nfpuInterface", 9, 6, <<"send">>)
nfpuCreateApplicationArea == AskService("nfpuInterface", 12, 7, <<"send">>)
nfpuFlush == _nfpuInterfaceCmdInIdNoOut("nfpuInterface", 10)
nfpuRestore == _nfpuInterfaceCmdInIdNoOut("nfpuInterface", 11)
nfpuIsNfcEnabled ==
  Since(2, AskService("nfcuInterface", 3, 4, <<>>))
    \cup Before(2, AskService("nfcuInterface", 403, 4, <<>>))

InputRequests == UNION {
  hidSetNpadJoyHoldType, hidExit, hidSetSupportedNpadIdType, hidSetSupportedNpadStyleSet,
  hidInitialize, hidAcquireNpadStyleSetUpdateEventHandle,
  hidSetNpadJoyAssignmentModeSingleByDefault, hidSetNpadJoyAssignmentModeDual,
  hidMergeSingleJoyAsDualJoy, hidGetVibrationDeviceInfo, hidSendVibrationValue,
  hidGetActualVibrationValue, hidPermitVibration, hidIsVibrationPermitted, hidSendVibrationValues,
  hidInitializeVibrationDevices, hidStartSixAxisSensor, hidStopSixAxisSensor,
  hidsysEnableAppletToGetInput, hidsysAcquireHomeButtonEventHandle,
  hidsysAcquireCaptureButtonEventHandle, hidsysAcquireSleepButtonEventHandle,
  hidsysActivateHomeButton, hidsysActivateSleepButton, hidsysActivateCaptureButton,
  irsActivateIrsensor, _irsGetIrsensorSharedMemoryHandle, _irsStopImageProcessor,
  _irsRunImageTransferProcessor, _irsGetImageTransferProcessorState, irsGetIrCameraHandle,
  _irsSuspendImageProcessor, nfpuExit, nfpuInitialize, nfpuStartDetection, nfpuStopDetection,
  nfpuAttachActivateEvent, nfpuAttachDeactivateEvent, nfpuAttachAvailabilityChangeEvent,
  nfpuGetState, nfpuGetDeviceState, nfpuListDevices, nfpuGetNpadId, nfpuMount, nfpuUnmount,
  nfpuGetTagInfo, nfpuGetRegisterInfo, nfpuGetCommonInfo, nfpuGetModelInfo,
  nfpuOpenApplicationArea, nfpuGetApplicationArea, nfpuSetApplicationArea,
  nfpuCreateApplicationArea, nfpuFlush, nfpuRestore, nfpuIsNfcEnabled}

-----------------------------------------------------------------------------
All == AudioRequests \cup DisplayRequests \cup InputRequests
=============================================================================
