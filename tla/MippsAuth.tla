------------------------------ MODULE MippsAuth ------------------------------
(***************************************************************************)
(* xiaomi-mipps-auth-retry: the service that runs Xiaomi's charger         *)
(* authentication.  A run is started at boot and by udev for every Type-C  *)
(* partner that is added, if none is active.  The helper it runs swaps the *)
(* USB data role, which tears down a connection to a computer and, after a *)
(* success, the charger's own; so a run leaves alone what an earlier one   *)
(* has settled, and two files in /run keep which attach that was.          *)
(*                                                                         *)
(* What the firmware says of the partner arrives late and piece by piece,  *)
(* and may be left over from an earlier one.  A run reads it node by node  *)
(* and acts later, so what it acts on may be stale: every read of sysfs is *)
(* a step of its own, and so is the helper's swap.  An attach is           *)
(* identified by its number, which stands for the device, inode and time   *)
(* of its sysfs directory.  The counts of the loops are constants.         *)
(***************************************************************************)
EXTENDS Integers

CONSTANTS MaxAttempts, MaxHelpers,       \* max_attempts, max_helper_attempts
          NonPdGrace, EmptySvidGrace, StaleSvidGrace, \* the ..._grace_attempts
          DataWaits, CompletionWaits,    \* polls before and after a helper
          MaxAttaches                    \* bound

ASSUME LoopAssumption ==
  /\ MaxAttempts \in Nat \ {0} /\ MaxHelpers \in Nat \ {0}
  /\ NonPdGrace \in Nat /\ EmptySvidGrace \in Nat /\ StaleSvidGrace \in Nat
  /\ DataWaits \in Nat \ {0} /\ CompletionWaits \in Nat \ {0}
  /\ MaxAttaches \in Nat

VARIABLES pc,             \* of the unit and its run
          attach_token,   \* read when the run started
          attempt, helper_attempts, waits,
          seen,           \* what this turn has read of the firmware
          completed, failed, \* the files, NoAttach if there is none
          partner, kind,  \* what is attached
          attaches,       \* so far
          event,          \* udev has an add event that systemd has not seen
          real_type, adapter_svid, pdo2, \* what the firmware publishes
          flags,          \* pd_verifed and fastchg_mode
          link,           \* the UDC is configured
          linkedAt,       \* history: where the run was when the link came up
          shown           \* history: attaches that saw the flags set

NoAttach == 0
Kinds == {"xiaomi", "standard", "computer"}

locals == <<attempt, helper_attempts, waits, seen>>
files == <<completed, failed>>
port == <<partner, kind, attaches, shown>>
udc == <<link, linkedAt>>
firmware == <<real_type, adapter_svid, pdo2, flags, udc>>
vars == <<pc, attach_token, locals, files, port, event, firmware>>

\* A turn of the loop, between its start and what it comes to.
Turning == pc \in {"real_type", "adapter_svid", "pdo2", "partner", "decide"}

\* The helper has been started and has not swapped the data role yet.
Helping == pc \in {"probe", "handshake"}

-----------------------------------------------------------------------------
(* The run.                                                                *)

\* Its identity, and whether that is already complete.
Begin ==
  /\ pc = "start"
  /\ attach_token' = partner
  /\ waits' = 0
  /\ linkedAt' = "before"
  /\ pc' = IF partner # NoAttach /\ completed = partner THEN "inactive" ELSE "begun"
  /\ UNCHANGED <<attempt, helper_attempts, seen, files, port, event,
                 real_type, adapter_svid, pdo2, flags, link>>

\* Mutant: the failed attach is not looked up.
CheckFlagsOnly ==
  /\ pc = "begun"
  /\ pc' = IF flags THEN "mark" ELSE "wait"
  /\ UNCHANGED <<attach_token, locals, files, port, event, firmware>>

\* Whether it still needs anything.
CheckFailed ==
  /\ pc = "begun"
  /\ pc' = IF flags THEN "mark"
           ELSE IF attach_token # NoAttach /\ failed = attach_token THEN "inactive"
           ELSE "wait"
  /\ UNCHANGED <<attach_token, locals, files, port, event, firmware>>

\* Mutant: the attach that is there now is marked.
MarkPartner ==
  /\ pc = "mark"
  /\ IF partner # NoAttach THEN completed' = partner /\ failed' = NoAttach
     ELSE UNCHANGED files
  /\ pc' = "inactive"
  /\ UNCHANGED <<attach_token, locals, port, event, firmware>>

\* mark_attach_complete, and the run is over.
MarkAttachComplete ==
  /\ pc = "mark"
  /\ IF attach_token # NoAttach THEN completed' = attach_token /\ failed' = NoAttach
     ELSE UNCHANGED files
  /\ pc' = "inactive"
  /\ UNCHANGED <<attach_token, locals, port, event, firmware>>

\* adbd is given time to bind its gadget.
WaitForDataLink ==
  /\ pc = "wait"
  /\ waits' = waits + 1
  /\ attempt' = 1 /\ helper_attempts' = 0
  /\ pc' = IF link THEN "inactive"
           ELSE IF waits' < DataWaits THEN "wait" ELSE "attempt"
  /\ UNCHANGED <<attach_token, seen, files, port, event, firmware>>

\* Mutant: an attempt that waits is not counted.
NextAttemptNotCounted == pc' = "attempt" /\ UNCHANGED attempt

\* The next turn of the loop; after the last one the run fails and systemd
\* starts another.
NextAttempt ==
  IF attempt < MaxAttempts THEN attempt' = attempt + 1 /\ pc' = "attempt"
  ELSE UNCHANGED attempt /\ pc' = "restart"

GiveUpAt(grace) ==
  IF attempt >= grace THEN pc' = "sync" /\ UNCHANGED attempt ELSE NextAttempt

\* A turn starts with is_complete.
Attempt ==
  /\ pc = "attempt"
  /\ pc' = IF flags THEN "mark" ELSE "real_type"
  /\ linkedAt' = IF linkedAt = "turn" THEN "run" ELSE linkedAt
  /\ UNCHANGED <<attach_token, locals, files, port, event, real_type,
                 adapter_svid, pdo2, flags, link>>

\* read_node, one node after the other.  Of an adapter that is not ready, or
\* not Xiaomi's, the later values decide nothing.
ReadNode ==
  /\ \/ /\ pc = "real_type"
        /\ IF real_type THEN seen' = "ready" /\ pc' = "adapter_svid"
           ELSE seen' = "notReady" /\ pc' = "partner"
     \/ /\ pc = "adapter_svid"
        /\ seen' = adapter_svid
        /\ pc' = IF adapter_svid = "other" THEN "partner" ELSE "pdo2"
     \/ /\ pc = "pdo2"
        /\ seen' = IF ~pdo2 THEN seen
                   ELSE IF seen = "xiaomi" THEN "xiaomiPdo" ELSE "emptyPdo"
        /\ pc' = "partner"
  /\ UNCHANGED <<attach_token, attempt, helper_attempts, waits, files, port,
                 event, firmware>>

\* has_typec_partner.
CheckPartner ==
  /\ pc = "partner"
  /\ IF partner # NoAttach THEN pc' = "decide" /\ UNCHANGED seen
     ELSE pc' = "inactive" /\ seen' = "nothing"
  /\ UNCHANGED <<attach_token, attempt, helper_attempts, waits, files, port,
                 event, firmware>>

\* Mutant: the data link is not asked for.
ProbeBlindly == seen = "emptyPdo"

\* A charger with a real PDO, and no computer.
SafeToProbe == seen = "emptyPdo" /\ ~link

\* What this turn comes to, from what it has read and from the data link.
Decide ==
  /\ pc = "decide"
  /\ \/ /\ seen = "notReady"
        /\ IF link /\ attempt >= NonPdGrace
           THEN pc' = "inactive" /\ UNCHANGED attempt
           ELSE GiveUpAt(NonPdGrace)
        /\ UNCHANGED helper_attempts
     \/ /\ seen \in {"empty", "emptyPdo"}
        /\ IF SafeToProbe THEN pc' = "probe" /\ UNCHANGED attempt
           ELSE GiveUpAt(EmptySvidGrace)
        /\ UNCHANGED helper_attempts
     \/ /\ seen = "other"
        /\ pc' = "sync" /\ UNCHANGED <<attempt, helper_attempts>>
     \/ /\ seen = "xiaomi"
        /\ IF link THEN GiveUpAt(StaleSvidGrace) ELSE NextAttempt
        /\ UNCHANGED helper_attempts
     \/ /\ seen = "xiaomiPdo"
        /\ pc' = "handshake" /\ helper_attempts' = helper_attempts + 1
        /\ UNCHANGED attempt
  /\ seen' = "nothing"
  /\ UNCHANGED <<attach_token, waits, files, port, event, firmware>>

\* The helper swaps the data role and ends: a data link is gone, and the
\* charger may show who it is.  Whether it accepts the authentication the
\* firmware publishes later.
SwapRole ==
  /\ Helping
  /\ pc' = IF pc = "probe" THEN "probed" ELSE "settle"
  /\ waits' = 0
  /\ link' = FALSE /\ linkedAt' = "before"
  /\ adapter_svid' \in
       IF partner # NoAttach /\ kind = "xiaomi" THEN {adapter_svid, "xiaomi"}
       ELSE {adapter_svid}
  /\ UNCHANGED <<attach_token, attempt, helper_attempts, seen, files, port,
                 event, real_type, pdo2, flags>>

\* After the identity probe: is_complete, then the identity again.
Probed ==
  /\ \/ /\ pc = "probed"
        /\ pc' = (IF flags THEN "mark" ELSE "reread")
        /\ UNCHANGED attempt
     \/ /\ pc = "reread"
        /\ IF adapter_svid = "xiaomi" THEN NextAttempt
           ELSE pc' = "sync" /\ UNCHANGED attempt
  /\ UNCHANGED <<attach_token, helper_attempts, waits, seen, files, port,
                 event, firmware>>

\* The flags may lag behind the handshake.  After the last handshake the
\* attach has failed.
AwaitCompletion ==
  /\ pc = "settle"
  /\ waits' = waits + 1
  /\ \/ flags /\ pc' = "mark" /\ UNCHANGED <<attempt, failed>>
     \/ ~flags /\ waits' < CompletionWaits /\ UNCHANGED <<pc, attempt, failed>>
     \/ /\ ~flags /\ waits' = CompletionWaits
        /\ IF helper_attempts >= MaxHelpers
           THEN /\ failed' =
                     IF attach_token # NoAttach THEN attach_token ELSE failed
                /\ pc' = "sync" /\ UNCHANGED attempt
           ELSE NextAttempt /\ UNCHANGED failed
  /\ UNCHANGED <<attach_token, helper_attempts, seen, completed, port, event,
                 firmware>>

\* sync_standard_pd_current, and the run is over.  If the write of the limit
\* is refused, the shell stops with an error.
SyncCurrent ==
  /\ pc = "sync"
  /\ pc' \in {"inactive", "restart"}
  /\ UNCHANGED <<attach_token, locals, files, port, event, firmware>>

Run ==
  \/ Begin \/ CheckFailed \/ MarkAttachComplete \/ WaitForDataLink
  \/ Attempt \/ ReadNode \/ CheckPartner \/ Decide \/ SwapRole \/ Probed
  \/ AwaitCompletion \/ SyncCurrent

\* Restart=on-failure.
Restart ==
  /\ pc = "restart"
  /\ pc' = "start"
  /\ UNCHANGED <<attach_token, locals, files, port, event, firmware>>

\* SYSTEMD_WANTS of the partner's device: nothing happens to an active unit.
Wanted ==
  /\ event
  /\ event' = FALSE
  /\ pc' = IF pc \in {"inactive", "restart"} THEN "start" ELSE pc
  /\ UNCHANGED <<attach_token, locals, files, port, firmware>>

-----------------------------------------------------------------------------
(* The port and the firmware.                                              *)

Attach(k) ==
  /\ partner = NoAttach /\ attaches < MaxAttaches
  /\ partner' = attaches + 1 /\ attaches' = attaches + 1 /\ kind' = k
  /\ event' = TRUE
  /\ shown' = IF flags THEN shown \cup {partner'} ELSE shown
  /\ UNCHANGED <<pc, attach_token, locals, files, firmware>>

\* Xiaomi's identity and the flags survive some detach events.
Detach ==
  /\ partner # NoAttach
  /\ partner' = NoAttach
  /\ adapter_svid' \in {"empty", adapter_svid}
  /\ flags' \in {FALSE, flags}
  /\ real_type' = FALSE /\ pdo2' = FALSE
  /\ link' = FALSE /\ linkedAt' = "before"
  /\ UNCHANGED <<pc, attach_token, locals, files, kind, attaches, shown, event>>

\* PD readiness, the identity, the PDO and the result, in any order.
Publish ==
  /\ partner # NoAttach
  /\ \/ real_type' = TRUE /\ UNCHANGED <<adapter_svid, pdo2, flags, shown>>
     \/ pdo2' = TRUE /\ UNCHANGED <<real_type, adapter_svid, flags, shown>>
     \/ /\ adapter_svid' = IF kind = "xiaomi" THEN "xiaomi" ELSE "other"
        /\ UNCHANGED <<real_type, pdo2, flags, shown>>
     \/ /\ flags /\ flags' = FALSE
        /\ UNCHANGED <<real_type, adapter_svid, pdo2, shown>>
     \/ /\ kind = "xiaomi" /\ ~flags /\ flags' = TRUE
        /\ shown' = shown \cup {partner}
        /\ UNCHANGED <<real_type, adapter_svid, pdo2>>
  /\ UNCHANGED <<pc, attach_token, locals, files, partner, kind, attaches,
                 event, udc>>

DataLink ==
  /\ partner # NoAttach /\ kind = "computer"
  /\ link' = ~link
  /\ linkedAt' = IF link THEN "before"
                 ELSE IF Helping THEN "window"
                 ELSE IF Turning THEN "turn" ELSE "run"
  /\ UNCHANGED <<pc, attach_token, locals, files, port, event, real_type,
                 adapter_svid, pdo2, flags>>

Port == (\E k \in Kinds : Attach(k)) \/ Detach \/ Publish \/ DataLink

\* The unit is wanted at boot, when something may be attached already.
Init ==
  /\ pc = "start" /\ attach_token = NoAttach
  /\ attempt = 1 /\ helper_attempts = 0 /\ waits = 0
  /\ seen = "nothing"
  /\ completed = NoAttach /\ failed = NoAttach
  /\ partner = NoAttach /\ kind = "standard" /\ attaches = 0 /\ shown = {}
  /\ event = FALSE
  /\ real_type = FALSE /\ adapter_svid = "empty" /\ pdo2 = FALSE
  /\ flags = FALSE /\ link = FALSE /\ linkedAt = "before"

Next == Run \/ Restart \/ Wanted \/ Port

\* The shell goes on; nobody owes the port anything.
Spec == Init /\ [][Next]_vars /\ WF_vars(Run)

-----------------------------------------------------------------------------
(* Properties.                                                             *)

TypeOK ==
  /\ pc \in {"inactive", "start", "begun", "mark", "wait", "attempt", "real_type",
             "adapter_svid", "pdo2", "partner", "decide", "probe", "probed",
             "reread", "handshake", "settle", "sync", "restart"}
  /\ seen \in {"nothing", "notReady", "ready", "empty", "emptyPdo", "other",
               "xiaomi", "xiaomiPdo"}
  /\ attach_token \in 0 .. attaches /\ partner \in 0 .. attaches
  /\ completed \in 0 .. attaches /\ failed \in 0 .. attaches
  /\ attaches \in 0 .. MaxAttaches /\ shown \in SUBSET (1 .. attaches)
  /\ attempt \in 1 .. MaxAttempts /\ helper_attempts \in 0 .. MaxHelpers
  /\ waits \in Nat /\ (waits <= DataWaits \/ waits <= CompletionWaits)
  /\ kind \in Kinds /\ adapter_svid \in {"empty", "other", "xiaomi"}
  /\ real_type \in BOOLEAN /\ pdo2 \in BOOLEAN /\ flags \in BOOLEAN
  /\ link \in BOOLEAN /\ event \in BOOLEAN
  /\ linkedAt \in {"before", "run", "turn", "window"}

\* Whatever comes and goes at the port, and however often the unit is started
\* or fails, the helper never runs on an attach that is recorded as complete
\* or as failed: its role swap would tear that partner down again.
SettledLeftAlone ==
  Helping /\ partner # NoAttach => partner \notin {completed, failed}

\* An attach that is recorded as complete while it is there has had the
\* completion flags set, so nothing is kept from a charger that never showed
\* them: the run reads its token once, the flags later, writes the file after
\* that, and by then another partner may be there.
CompletedWasShown ==
  partner # NoAttach /\ completed = partner => partner \in shown

\* A data link that a role swap is about to tear down was not there when the
\* run could have known: whatever identity is left over from a charger, it has
\* come up since the run's waits for it, and for a probe even since its look
\* at the link in the same turn.
LinkSpared ==
  Helping /\ link => linkedAt # "before" /\ (pc = "probe" => linkedAt = "window")

\* "A configured data link is a computer connection and must never be torn
\* down by the authentication helper's host-role request"
\* (xiaomi-mipps-auth.nix:258-260): a link that is up when the helper is
\* about to swap came up too late for this turn to have looked at it.
NoHelperOnDataLink == Helping /\ link => linkedAt \in {"turn", "window"}

\* Every run ends.
RunEnds == pc = "start" ~> pc \in {"inactive", "restart"}
=============================================================================
