-------------------------- MODULE MCCommandDelivery ---------------------------
(* One command on its way through the transport. In `responses` two hosts   *)
(* publish for a caller without an outcome service; in `authority` a        *)
(* response from before the shared authority is retained and publication is *)
(* replayed; in `quarantine` two deliveries share one host. `part` names    *)
(* the instance a behaviour is about.                                       *)
EXTENDS CommandDelivery, TLC

CONSTANTS w1, w2, h1, h2

VARIABLES
    part

allVars == <<part, vars>>

\* Two deliveries in one process, or in two.
OneHost == w1 :> h1 @@ w2 :> h1
TwoHosts == w1 :> h1 @@ w2 :> h2

NoLegacy == << >>
LegacyAccepted == <<[body |-> Business("accepted"), id |-> BusinessId]>>

-----------------------------------------------------------------------------

\* The command is published once.
Responses == INSTANCE CommandDelivery WITH
    Decisions <- {"accepted"}, Legacy <- NoLegacy, OutcomeService <- FALSE,
    MaxRecords <- 2
\* One worker is idle.
Authority == INSTANCE CommandDelivery WITH
    ReplayPublication <- TRUE, MaxAttempts <- 1, MaxTries <- 1
Quarantined == INSTANCE CommandDelivery WITH
    Hosts <- {h1}, HostOf <- OneHost, Decisions <- {"accepted"}, Legacy <- NoLegacy,
    MaxAttempts <- 1, MaxTries <- 1, MaxRecords <- 2, MaxDelayed <- 0

-----------------------------------------------------------------------------
PartInit ==
    /\ part \in
        {"responses", "authority", "quarantine"}
    /\ IF part = "authority" THEN Authority!Init ELSE IF part = "quarantine" THEN Quarantined!Init ELSE Responses!Init

PartNext ==
    \/ /\ \/ part = "responses" /\ Responses!Next /\ source'[2] = "none"
          \/ part = "authority" /\ Authority!Next /\ pc'[w2] = "idle"
          \/ part = "quarantine" /\ Quarantined!Next
       /\ UNCHANGED part

PartSpec == PartInit /\ [][PartNext]_allVars

-----------------------------------------------------------------------------
=============================================================================
