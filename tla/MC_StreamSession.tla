-------------------------- MODULE MC_StreamSession --------------------------
(* Instances of StreamSession for TLC.                                      *)
EXTENDS StreamSession, TLC

AllowAll == [p \in Provider |-> Symbol]

\* one symbol that no provider may stream
Foreign == CHOOSE s \in Symbol : TRUE
AllowOthers == [p \in Provider |-> Symbol \ {Foreign}]
=============================================================================
