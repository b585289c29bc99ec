------------------------ MODULE ServedConfiguration ------------------------
(***************************************************************************)
(* What the workspace manager promises (workspacemanager.go:13-23 and      *)
(* 130-137): the set that is served changes in one step, a workspace taken *)
(* out of the configuration leaves whatever else happens, and one that is  *)
(* in it is served as configured or, when that could not be brought up, as *)
(* it was before.                                                          *)
(***************************************************************************)
CONSTANTS Names, Configs, NoConfig

VARIABLES wanted, serving

Assignments == [Names -> Configs \cup {NoConfig}]

Init == wanted \in Assignments /\ serving = [n \in Names |-> NoConfig]

\* The configuration is read again, or the process starts over and reads it.
Read ==
  /\ wanted' \in Assignments
  /\ serving' \in {serving, [n \in Names |-> NoConfig]}

Apply ==
  /\ serving' \in Assignments
  /\ \A n \in Names :
       serving'[n] \in IF wanted[n] = NoConfig THEN {NoConfig}
                       ELSE {serving[n], wanted[n]}
  /\ UNCHANGED wanted

Next == Read \/ Apply

Spec == Init /\ [][Next]_<<wanted, serving>>
=============================================================================
