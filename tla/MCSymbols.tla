------------------------------ MODULE MCSymbols ------------------------------
(* A new driver, one without the newest functions, and one that also lacks  *)
(* the versioned lookup and the functions of CUDA 12.                       *)
EXTENDS Symbols

MCDrivers == {{},
              {"cuCtxCreate_v4", "cuMemAdvise_v2", "cuMemPrefetchAsync_v2", "nvmlDeviceGetMemoryInfo_v2"},
              {"cuCtxCreate_v4", "cuCtxCreate_v3", "cuMemAdvise_v2", "cuMemPrefetchAsync_v2",
               "cuGetProcAddress_v2", "cuGraphAddKernelNode_v2", "cuGraphKernelNodeGetParams_v2",
               "cuGraphKernelNodeSetParams_v2", "cuLaunchKernelEx"}}

MCThreads == {"t1", "t2"}
MCMaxNext == [next |-> 5, lookup |-> 1, once |-> 0]
MCCallers == [next |-> {}, lookup |-> {"t1"}, once |-> MCThreads]

MCSince == [n \in {"cuCtxCreate_v3", "cuDeviceGetUuid_v2"} |-> 11040] @@
           [n \in {"cuGraphAddKernelNode_v2", "cuGraphKernelNodeGetParams_v2",
                   "cuGraphKernelNodeSetParams_v2", "cuGetProcAddress_v2"} |-> 12000] @@
           [n \in {"cuMemAdvise_v2", "cuMemPrefetchAsync_v2"} |-> 12020] @@
           [n \in {"cuGraphGetEdges_v2", "cuGraphNodeGetDependencies_v2",
                   "cuGraphNodeGetDependentNodes_v2", "cuGraphAddDependencies_v2",
                   "cuGraphRemoveDependencies_v2"} |-> 12030] @@
           [n \in {"cuCtxCreate_v4"} |-> 12050]
=============================================================================
