----------------------------- MODULE EntryPoints -----------------------------
(***************************************************************************)
(* The names libvgpu.so intercepts, as its tables and wrapper files list   *)
(* them.  A wrapper reaches the driver by position: NVML_OVERRIDE_CALL and *)
(* CUDA_OVERRIDE_CALL take the enumerator of a name as an index into a     *)
(* table whose rows hold names, which load_*_libraries resolves.  The      *)
(* enumerations list the names of the rows in the order of the rows, so    *)
(* the model puts the name for the position; that they do was compared     *)
(* name by name in the source, and is no result of these modules.          *)
(*                                                                         *)
(* The build modelled: CUDA_VERSION < 13000 (which has cuCtxCreate_v2 and  *)
(* _v3, and both versions of the functions of graph.c), and the options    *)
(* HOOK_NVML_ENABLE and HOOK_MEMINFO_ENABLE that build.sh gives.           *)
(***************************************************************************)
EXTENDS Naturals, Sequences, SequencesExt

(* The rows of cuda_library_entry, part by part as cuda_override_enum_t's   *)
(* comments divide them.                                                    *)
InitPart ==
    <<"cuInit">>

DevicePart ==
    <<"cuDeviceGetAttribute", "cuDeviceGet", "cuDeviceGetCount", "cuDeviceGetName", "cuDeviceCanAccessPeer",
      "cuDeviceGetP2PAttribute", "cuDeviceGetByPCIBusId", "cuDeviceGetPCIBusId", "cuDeviceGetUuid",
      "cuDeviceGetUuid_v2", "cuDeviceGetDefaultMemPool", "cuDeviceGetLuid", "cuDeviceGetMemPool",
      "cuDeviceTotalMem_v2", "cuDriverGetVersion", "cuDeviceGetTexture1DLinearMaxWidth",
      "cuDeviceSetMemPool", "cuFlushGPUDirectRDMAWrites">>

ContextPart ==
    <<"cuDevicePrimaryCtxGetState", "cuDevicePrimaryCtxRetain", "cuDevicePrimaryCtxSetFlags_v2",
      "cuDevicePrimaryCtxRelease_v2", "cuCtxGetDevice", "cuCtxCreate_v2", "cuCtxCreate_v3", "cuCtxCreate_v4",
      "cuCtxDestroy_v2", "cuCtxGetApiVersion", "cuCtxGetCacheConfig", "cuCtxGetCurrent", "cuCtxGetFlags",
      "cuCtxGetLimit", "cuCtxGetSharedMemConfig", "cuCtxGetStreamPriorityRange", "cuCtxPopCurrent_v2",
      "cuCtxPushCurrent_v2", "cuCtxSetCacheConfig", "cuCtxSetCurrent", "cuCtxSetLimit",
      "cuCtxSetSharedMemConfig", "cuCtxSynchronize", "cuGetExportTable">>

StreamPart ==
    <<"cuStreamCreate", "cuStreamDestroy_v2", "cuStreamSynchronize">>

MemoryPart ==
    <<"cuArray3DCreate_v2", "cuArrayCreate_v2", "cuArrayDestroy", "cuMemAlloc_v2", "cuMemAllocHost_v2",
      "cuMemAllocManaged", "cuMemAllocPitch_v2", "cuMemFree_v2", "cuMemFreeHost", "cuMemHostAlloc",
      "cuMemHostRegister_v2", "cuMemHostUnregister", "cuMemcpyDtoH_v2", "cuMemcpyHtoD_v2",
      "cuMipmappedArrayCreate", "cuMipmappedArrayDestroy", "cuMemGetInfo_v2", "cuMemcpy",
      "cuPointerGetAttribute", "cuPointerGetAttributes", "cuPointerSetAttribute", "cuIpcCloseMemHandle",
      "cuIpcGetMemHandle", "cuIpcOpenMemHandle_v2", "cuMemGetAddressRange_v2", "cuMemcpyAsync",
      "cuMemcpyAtoD_v2", "cuMemcpyDtoA_v2", "cuMemcpyDtoD_v2", "cuMemcpyDtoDAsync_v2",
      "cuMemcpyDtoHAsync_v2", "cuMemcpyHtoDAsync_v2", "cuMemcpyPeer", "cuMemcpyPeerAsync", "cuMemsetD16_v2",
      "cuMemsetD16Async", "cuMemsetD2D16_v2", "cuMemsetD2D16Async", "cuMemsetD2D32_v2", "cuMemsetD2D32Async",
      "cuMemsetD2D8_v2", "cuMemsetD2D8Async", "cuMemsetD32_v2", "cuMemsetD32Async", "cuMemsetD8_v2",
      "cuMemsetD8Async", "cuMemAdvise", "cuMemAdvise_v2", "cuFuncSetCacheConfig", "cuFuncSetSharedMemConfig",
      "cuFuncGetAttribute", "cuFuncSetAttribute", "cuLaunchKernel", "cuLaunchKernelEx",
      "cuLaunchCooperativeKernel">>

EventPart ==
    <<"cuEventCreate", "cuEventDestroy_v2", "cuModuleLoad", "cuModuleLoadData", "cuModuleLoadDataEx",
      "cuModuleLoadFatBinary", "cuModuleGetFunction", "cuModuleUnload", "cuModuleGetGlobal_v2",
      "cuModuleGetTexRef", "cuModuleGetSurfRef", "cuLinkAddData_v2", "cuLinkCreate_v2", "cuLinkAddFile_v2",
      "cuLinkComplete", "cuLinkDestroy">>

VirtualPart ==
    <<"cuMemAddressReserve", "cuMemCreate", "cuMemRelease", "cuMemMap", "cuMemImportFromShareableHandle",
      "cuMemAllocAsync", "cuMemFreeAsync">>

PoolPart ==
    <<"cuMemHostGetDevicePointer_v2", "cuMemHostGetFlags", "cuMemPoolTrimTo", "cuMemPoolSetAttribute",
      "cuMemPoolGetAttribute", "cuMemPoolSetAccess", "cuMemPoolGetAccess", "cuMemPoolCreate",
      "cuMemPoolDestroy", "cuMemAllocFromPoolAsync", "cuMemPoolExportToShareableHandle",
      "cuMemPoolImportFromShareableHandle", "cuMemPoolExportPointer", "cuMemPoolImportPointer",
      "cuMemcpy2D_v2", "cuMemcpy2DUnaligned_v2", "cuMemcpy2DAsync_v2", "cuMemcpy3D_v2", "cuMemcpy3DAsync_v2",
      "cuMemcpy3DPeer", "cuMemcpy3DPeerAsync", "cuMemPrefetchAsync", "cuMemPrefetchAsync_v2",
      "cuMemRangeGetAttribute", "cuMemRangeGetAttributes">>

ExternalPart ==
    <<"cuImportExternalMemory", "cuExternalMemoryGetMappedBuffer", "cuExternalMemoryGetMappedMipmappedArray",
      "cuDestroyExternalMemory", "cuImportExternalSemaphore", "cuSignalExternalSemaphoresAsync",
      "cuWaitExternalSemaphoresAsync", "cuDestroyExternalSemaphore">>

GraphPart ==
    <<"cuGraphCreate", "cuGraphAddKernelNode_v2", "cuGraphKernelNodeGetParams_v2",
      "cuGraphKernelNodeSetParams_v2", "cuGraphAddMemcpyNode", "cuGraphMemcpyNodeGetParams",
      "cuGraphMemcpyNodeSetParams", "cuGraphAddMemsetNode", "cuGraphMemsetNodeGetParams",
      "cuGraphMemsetNodeSetParams", "cuGraphAddHostNode", "cuGraphHostNodeGetParams",
      "cuGraphHostNodeSetParams", "cuGraphAddChildGraphNode", "cuGraphChildGraphNodeGetGraph",
      "cuGraphAddEmptyNode", "cuGraphAddEventRecordNode", "cuGraphEventRecordNodeGetEvent",
      "cuGraphEventRecordNodeSetEvent", "cuGraphAddEventWaitNode", "cuGraphEventWaitNodeGetEvent",
      "cuGraphEventWaitNodeSetEvent", "cuGraphAddExternalSemaphoresSignalNode",
      "cuGraphExternalSemaphoresSignalNodeGetParams", "cuGraphExternalSemaphoresSignalNodeSetParams",
      "cuGraphAddExternalSemaphoresWaitNode", "cuGraphExternalSemaphoresWaitNodeGetParams",
      "cuGraphExternalSemaphoresWaitNodeSetParams", "cuGraphExecExternalSemaphoresSignalNodeSetParams",
      "cuGraphExecExternalSemaphoresWaitNodeSetParams", "cuGraphClone", "cuGraphNodeFindInClone",
      "cuGraphNodeGetType", "cuGraphGetNodes", "cuGraphGetRootNodes", "cuGraphGetEdges",
      "cuGraphGetEdges_v2", "cuGraphNodeGetDependencies", "cuGraphNodeGetDependencies_v2",
      "cuGraphNodeGetDependentNodes", "cuGraphNodeGetDependentNodes_v2", "cuGraphAddDependencies",
      "cuGraphAddDependencies_v2", "cuGraphRemoveDependencies", "cuGraphRemoveDependencies_v2",
      "cuGraphDestroyNode", "cuGraphInstantiate", "cuGraphInstantiateWithFlags", "cuGraphUpload",
      "cuGraphLaunch", "cuGraphExecDestroy", "cuGraphDestroy">>

ProcAddressPart ==
    <<"cuGetProcAddress", "cuGetProcAddress_v2">>

cuda_library_entry ==
    InitPart \o DevicePart \o ContextPart \o StreamPart \o MemoryPart \o EventPart
    \o VirtualPart \o PoolPart \o ExternalPart \o GraphPart \o ProcAddressPart

(* The names of the wrappers, file by file; each one calls the table entry  *)
(* of its own name (memory_c's 2D and 3D copies through cuda.h's macros).   *)
device_c == ToSet(DevicePart)
context_c == ToSet(ContextPart) \ {"cuGetExportTable"}
stream_c == ToSet(StreamPart)
event_c == ToSet(EventPart) \cup {"cuFuncSetCacheConfig", "cuFuncSetSharedMemConfig",
                                  "cuFuncGetAttribute", "cuFuncSetAttribute"}
graph_c == ToSet(GraphPart)
memory_c == ToSet(MemoryPart) \ event_c
virtual_memory_c == ToSet(VirtualPart)
memory_pool_c == ToSet(PoolPart)
external_memory_c == ToSet(ExternalPart)

(* What dlsym(vgpulib, ...) finds: every wrapper libvgpu.so exports.  The   *)
(* table row cuGetExportTable has none.                                     *)
CudaWrappers == device_c \cup context_c \cup stream_c \cup event_c \cup graph_c \cup memory_c
                \cup virtual_memory_c \cup memory_pool_c \cup external_memory_c
                \cup ToSet(InitPart) \cup ToSet(ProcAddressPart)

(* The DLSYM_HOOK_FUNC lines of __dlsym_hook_section.                       *)
CudaHooks == ToSet(cuda_library_entry) \ {"cuGetExportTable"}

(* The rows of nvml_library_entry, in four parts.                           *)
NvmlPart1 ==
    <<"nvmlInit", "nvmlShutdown", "nvmlErrorString", "nvmlDeviceGetHandleByIndex",
      "nvmlDeviceGetComputeRunningProcesses", "nvmlDeviceGetPciInfo", "nvmlDeviceGetProcessUtilization",
      "nvmlDeviceGetCount", "nvmlDeviceClearAccountingPids", "nvmlDeviceClearCpuAffinity",
      "nvmlDeviceClearEccErrorCounts", "nvmlDeviceDiscoverGpus", "nvmlDeviceFreezeNvLinkUtilizationCounter",
      "nvmlDeviceGetAccountingBufferSize", "nvmlDeviceGetAccountingMode", "nvmlDeviceGetAccountingPids",
      "nvmlDeviceGetAccountingStats", "nvmlDeviceGetActiveVgpus", "nvmlDeviceGetAPIRestriction",
      "nvmlDeviceGetApplicationsClock", "nvmlDeviceGetAutoBoostedClocksEnabled",
      "nvmlDeviceGetBAR1MemoryInfo", "nvmlDeviceGetBoardId", "nvmlDeviceGetBoardPartNumber",
      "nvmlDeviceGetBrand", "nvmlDeviceGetBridgeChipInfo", "nvmlDeviceGetClock", "nvmlDeviceGetClockInfo",
      "nvmlDeviceGetComputeMode", "nvmlDeviceGetCount_v2", "nvmlDeviceGetCpuAffinity",
      "nvmlDeviceGetCreatableVgpus", "nvmlDeviceGetCudaComputeCapability",
      "nvmlDeviceGetCurrentClocksThrottleReasons", "nvmlDeviceGetCurrPcieLinkGeneration",
      "nvmlDeviceGetCurrPcieLinkWidth", "nvmlDeviceGetDecoderUtilization",
      "nvmlDeviceGetDefaultApplicationsClock", "nvmlDeviceGetDetailedEccErrors",
      "nvmlDeviceGetDisplayActive", "nvmlDeviceGetDisplayMode", "nvmlDeviceGetDriverModel",
      "nvmlDeviceGetEccMode", "nvmlDeviceGetEncoderCapacity", "nvmlDeviceGetEncoderSessions",
      "nvmlDeviceGetEncoderStats", "nvmlDeviceGetEncoderUtilization", "nvmlDeviceGetEnforcedPowerLimit",
      "nvmlDeviceGetFanSpeed", "nvmlDeviceGetFanSpeed_v2", "nvmlDeviceGetFieldValues",
      "nvmlDeviceGetGpuOperationMode", "nvmlDeviceGetGraphicsRunningProcesses",
      "nvmlDeviceGetGridLicensableFeatures", "nvmlDeviceGetHandleByIndex_v2",
      "nvmlDeviceGetHandleByPciBusId", "nvmlDeviceGetHandleByPciBusId_v2", "nvmlDeviceGetHandleBySerial",
      "nvmlDeviceGetHandleByUUID", "nvmlDeviceGetIndex", "nvmlDeviceGetInforomConfigurationChecksum">>

NvmlPart2 ==
    <<"nvmlDeviceGetInforomImageVersion", "nvmlDeviceGetInforomVersion", "nvmlDeviceGetMaxClockInfo",
      "nvmlDeviceGetMaxCustomerBoostClock", "nvmlDeviceGetMaxPcieLinkGeneration",
      "nvmlDeviceGetMaxPcieLinkWidth", "nvmlDeviceGetMemoryErrorCounter", "nvmlDeviceGetMemoryInfo",
      "nvmlDeviceGetMemoryInfo_v2", "nvmlDeviceGetMinorNumber", "nvmlDeviceGetMPSComputeRunningProcesses",
      "nvmlDeviceGetMultiGpuBoard", "nvmlDeviceGetName", "nvmlDeviceGetNvLinkCapability",
      "nvmlDeviceGetNvLinkErrorCounter", "nvmlDeviceGetNvLinkRemotePciInfo",
      "nvmlDeviceGetNvLinkRemotePciInfo_v2", "nvmlDeviceGetNvLinkState",
      "nvmlDeviceGetNvLinkUtilizationControl", "nvmlDeviceGetNvLinkUtilizationCounter",
      "nvmlDeviceGetNvLinkVersion", "nvmlDeviceGetP2PStatus", "nvmlDeviceGetPcieReplayCounter",
      "nvmlDeviceGetPcieThroughput", "nvmlDeviceGetPciInfo_v2", "nvmlDeviceGetPciInfo_v3",
      "nvmlDeviceGetPerformanceState", "nvmlDeviceGetPersistenceMode",
      "nvmlDeviceGetPowerManagementDefaultLimit", "nvmlDeviceGetPowerManagementLimit",
      "nvmlDeviceGetPowerManagementLimitConstraints", "nvmlDeviceGetPowerManagementMode",
      "nvmlDeviceGetPowerState", "nvmlDeviceGetPowerUsage", "nvmlDeviceGetRetiredPages",
      "nvmlDeviceGetRetiredPagesPendingStatus", "nvmlDeviceGetSamples", "nvmlDeviceGetSerial",
      "nvmlDeviceGetSupportedClocksThrottleReasons", "nvmlDeviceGetSupportedEventTypes",
      "nvmlDeviceGetSupportedGraphicsClocks", "nvmlDeviceGetSupportedMemoryClocks",
      "nvmlDeviceGetSupportedVgpus", "nvmlDeviceGetTemperature", "nvmlDeviceGetTemperatureThreshold",
      "nvmlDeviceGetTopologyCommonAncestor", "nvmlDeviceGetTopologyNearestGpus",
      "nvmlDeviceGetTotalEccErrors", "nvmlDeviceGetTotalEnergyConsumption", "nvmlDeviceGetUtilizationRates",
      "nvmlDeviceGetUUID", "nvmlDeviceGetVbiosVersion", "nvmlDeviceGetVgpuMetadata",
      "nvmlDeviceGetVgpuProcessUtilization", "nvmlDeviceGetVgpuUtilization", "nvmlDeviceGetViolationStatus",
      "nvmlDeviceGetVirtualizationMode", "nvmlDeviceModifyDrainState", "nvmlDeviceOnSameBoard",
      "nvmlDeviceQueryDrainState", "nvmlDeviceRegisterEvents">>

NvmlPart3 ==
    <<"nvmlDeviceRemoveGpu", "nvmlDeviceRemoveGpu_v2", "nvmlDeviceResetApplicationsClocks",
      "nvmlDeviceResetNvLinkErrorCounters", "nvmlDeviceResetNvLinkUtilizationCounter",
      "nvmlDeviceSetAccountingMode", "nvmlDeviceSetAPIRestriction", "nvmlDeviceSetApplicationsClocks",
      "nvmlDeviceSetAutoBoostedClocksEnabled", "nvmlDeviceSetComputeMode", "nvmlDeviceSetCpuAffinity",
      "nvmlDeviceSetDefaultAutoBoostedClocksEnabled", "nvmlDeviceSetDriverModel", "nvmlDeviceSetEccMode",
      "nvmlDeviceSetGpuOperationMode", "nvmlDeviceSetNvLinkUtilizationControl",
      "nvmlDeviceSetPersistenceMode", "nvmlDeviceSetPowerManagementLimit", "nvmlDeviceSetVirtualizationMode",
      "nvmlDeviceValidateInforom", "nvmlEventSetCreate", "nvmlEventSetFree", "nvmlEventSetWait",
      "nvmlGetVgpuCompatibility", "nvmlInit_v2", "nvmlInitWithFlags", "nvmlInternalGetExportTable",
      "nvmlSystemGetCudaDriverVersion", "nvmlSystemGetCudaDriverVersion_v2", "nvmlSystemGetDriverVersion",
      "nvmlSystemGetHicVersion", "nvmlSystemGetNVMLVersion", "nvmlSystemGetProcessName",
      "nvmlSystemGetTopologyGpuSet", "nvmlUnitGetCount", "nvmlUnitGetDevices", "nvmlUnitGetFanSpeedInfo",
      "nvmlUnitGetHandleByIndex", "nvmlUnitGetLedState", "nvmlUnitGetPsuInfo", "nvmlUnitGetTemperature",
      "nvmlUnitGetUnitInfo", "nvmlUnitSetLedState", "nvmlVgpuInstanceGetEncoderCapacity",
      "nvmlVgpuInstanceGetEncoderSessions", "nvmlVgpuInstanceGetEncoderStats", "nvmlVgpuInstanceGetFbUsage",
      "nvmlVgpuInstanceGetFrameRateLimit", "nvmlVgpuInstanceGetLicenseStatus", "nvmlVgpuInstanceGetMetadata",
      "nvmlVgpuInstanceGetType", "nvmlVgpuInstanceGetUUID", "nvmlVgpuInstanceGetVmDriverVersion",
      "nvmlVgpuInstanceGetVmID", "nvmlVgpuInstanceSetEncoderCapacity", "nvmlVgpuTypeGetClass",
      "nvmlVgpuTypeGetDeviceID", "nvmlVgpuTypeGetFramebufferSize", "nvmlVgpuTypeGetFrameRateLimit",
      "nvmlVgpuTypeGetLicense", "nvmlVgpuTypeGetMaxInstances">>

NvmlPart4 ==
    <<"nvmlVgpuTypeGetName", "nvmlVgpuTypeGetNumDisplayHeads", "nvmlVgpuTypeGetResolution",
      "nvmlDeviceGetFBCSessions", "nvmlDeviceGetFBCStats", "nvmlDeviceGetGridLicensableFeatures_v2",
      "nvmlDeviceGetRetiredPages_v2", "nvmlDeviceResetGpuLockedClocks", "nvmlDeviceSetGpuLockedClocks",
      "nvmlVgpuInstanceGetAccountingMode", "nvmlVgpuInstanceGetAccountingPids",
      "nvmlVgpuInstanceGetAccountingStats", "nvmlVgpuInstanceGetFBCSessions", "nvmlVgpuInstanceGetFBCStats",
      "nvmlVgpuTypeGetMaxInstancesPerVm", "nvmlGetVgpuVersion", "nvmlSetVgpuVersion",
      "nvmlDeviceGetGridLicensableFeatures_v3", "nvmlDeviceGetHostVgpuMode",
      "nvmlDeviceGetPgpuMetadataString", "nvmlVgpuInstanceGetEccMode", "nvmlComputeInstanceDestroy",
      "nvmlComputeInstanceGetInfo", "nvmlDeviceCreateGpuInstance", "nvmlDeviceGetArchitecture",
      "nvmlDeviceGetAttributes", "nvmlDeviceGetAttributes_v2", "nvmlDeviceGetComputeInstanceId",
      "nvmlDeviceGetCpuAffinityWithinScope", "nvmlDeviceGetDeviceHandleFromMigDeviceHandle",
      "nvmlDeviceGetGpuInstanceById", "nvmlDeviceGetGpuInstanceId",
      "nvmlDeviceGetGpuInstancePossiblePlacements", "nvmlDeviceGetGpuInstanceProfileInfo",
      "nvmlDeviceGetGpuInstanceRemainingCapacity", "nvmlDeviceGetGpuInstances",
      "nvmlDeviceGetMaxMigDeviceCount", "nvmlDeviceGetMemoryAffinity", "nvmlDeviceGetMigDeviceHandleByIndex",
      "nvmlDeviceGetMigMode", "nvmlDeviceGetRemappedRows", "nvmlDeviceGetRowRemapperHistogram",
      "nvmlDeviceIsMigDeviceHandle", "nvmlDeviceSetMigMode", "nvmlEventSetWait_v2",
      "nvmlGpuInstanceCreateComputeInstance", "nvmlGpuInstanceDestroy",
      "nvmlGpuInstanceGetComputeInstanceById", "nvmlGpuInstanceGetComputeInstanceProfileInfo",
      "nvmlGpuInstanceGetComputeInstanceRemainingCapacity", "nvmlGpuInstanceGetComputeInstances",
      "nvmlGpuInstanceGetInfo", "nvmlVgpuInstanceClearAccountingPids", "nvmlVgpuInstanceGetMdevUUID",
      "nvmlComputeInstanceGetInfo_v2", "nvmlDeviceGetComputeRunningProcesses_v2",
      "nvmlDeviceGetGraphicsRunningProcesses_v2", "nvmlDeviceSetTemperatureThreshold",
      "nvmlVgpuInstanceGetGpuInstanceId", "nvmlVgpuTypeGetGpuInstanceProfileId">>

nvml_library_entry == NvmlPart1 \o NvmlPart2 \o NvmlPart3 \o NvmlPart4

(* The wrappers of nvml_entry.c in the order of that file, by the place of  *)
(* their names in the table: each calls the entry of its own name.          *)
Wrapped(places) == {nvml_library_entry[i] : i \in places}

nvml_entry_c_1 == Wrapped({5, 7} \cup (2..3) \cup (9..21))
nvml_entry_c_2 == Wrapped({136} \cup (22..29) \cup (31..44))
nvml_entry_c_3 == Wrapped((45..54) \cup (61..67))
nvml_entry_c_4 == Wrapped({68} \cup (71..76) \cup (79..85) \cup (88..91))
nvml_entry_c_5 == Wrapped(92..111)
nvml_entry_c_6 == Wrapped(113..133)
nvml_entry_c_7 == Wrapped((134..135) \cup (137..146) \cup (149..162))
nvml_entry_c_8 == Wrapped(163..185)
nvml_entry_c_9 == Wrapped(186..208)
nvml_entry_c_10 == Wrapped(209..229)
nvml_entry_c_11 == Wrapped(230..243)
nvml_hook_c == Wrapped({1, 4, 6, 8, 30, 112} \cup (55..60) \cup (69..70) \cup (77..78) \cup (86..87) \cup (147..148))

NvmlWrappers ==
    nvml_entry_c_1 \cup nvml_entry_c_2 \cup nvml_entry_c_3 \cup nvml_entry_c_4 \cup
    nvml_entry_c_5 \cup nvml_entry_c_6 \cup nvml_entry_c_7 \cup nvml_entry_c_8 \cup
    nvml_entry_c_9 \cup nvml_entry_c_10 \cup nvml_entry_c_11
    \cup nvml_hook_c

(* The DLSYM_HOOK_FUNC lines of __dlsym_hook_section_nvml.                  *)
NvmlHooks == ToSet(nvml_library_entry)

(* The table entry a wrapper calls: its own, but for two NVML wrappers.     *)
Forward(n) ==
    CASE n = "nvmlInit" -> "nvmlInit_v2"
      [] n = "nvmlDeviceGetCount" -> "nvmlDeviceGetCount_v2"
      [] OTHER -> n
=============================================================================
