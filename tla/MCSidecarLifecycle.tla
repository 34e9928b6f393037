-------------------------- MODULE MCSidecarLifecycle --------------------------
(* Instances of the lifecycle: one or two applications on one storage.     *)
EXTENDS SidecarLifecycle, TLC

AppSymmetry == Permutations(App)

===============================================================================
