------------------------------ MODULE MCPresence ------------------------------
(* Small instances around a user's tabs: the handlers of their sockets       *)
(* (PresenceObserved: two tabs of one user on two processes, and a tab of    *)
(* another user), and what a browser holds of a session (TabSession).  The   *)
(* parts share no modelled state, so a behaviour exercises one of them,      *)
(* while the others rest where they began.                                   *)
EXTENDS PresenceObserved, TabSession, TLC

CONSTANTS u1, u2, s1, s2, s3, i1, i2,
          Parts                        \* the components that are explored

MCOwner == (s1 :> u1) @@ (s2 :> u1) @@ (s3 :> u2)
MCHome  == (s1 :> i1) @@ (s2 :> i2) @@ (s3 :> i1)

VARIABLE part    \* the component this behaviour exercises

presenceVars == <<vars, overlapped>>
mcVars       == <<part, presenceVars, tabVars>>

MCInit == part \in Parts /\ ObservedInit /\ TabInit

PresenceStep == part = "presence" /\ ObservedNext /\ UNCHANGED tabVars
TabStep      == /\ \/ part = "tokens" /\ TokenStep
                   \/ part = "sockets" /\ SocketStep
                /\ UNCHANGED presenceVars

MCNext == (PresenceStep \/ TabStep) /\ UNCHANGED part

\* Nothing that is fair is enabled in an initial state, so that the fairness of one
\* component asks nothing of the behaviours of another.
MCSpec == MCInit /\ [][MCNext]_mcVars /\ Tokens!Fairness /\ Sockets!Fairness
=============================================================================
