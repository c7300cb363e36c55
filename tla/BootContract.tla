---------------------------- MODULE BootContract ----------------------------
(***************************************************************************)
(* What the boot-mode machinery of BootMode promises, without files,       *)
(* detectors or generators: a boot decides at most once, a wish for a      *)
(* normal boot binds the next decision, the charging screen needs a        *)
(* charger decision, and a running desktop is never reclassified.          *)
(***************************************************************************)
VARIABLES decision,  \* "none" until this boot has decided
          wish,      \* a normal boot was asked for and not yet served
          running    \* what the boot has led to

contractVars == <<decision, wish, running>>

ContractInit == decision = "none" /\ wish = FALSE /\ running = "nothing"

Decide(m) ==
  /\ decision = "none"
  /\ wish \/ running = "desktop" => m = "normal"
  /\ decision' = m
  /\ UNCHANGED <<wish, running>>

\* The boot has got past its early services: the wish is served.
Serve ==
  /\ running = "nothing"
  /\ wish' = FALSE
  /\ UNCHANGED <<decision, running>>

Start(r) ==
  /\ running = "nothing"
  /\ r = "charging" => decision = "charger"
  /\ running' = r
  /\ UNCHANGED <<decision, wish>>

\* What is running ends, or goes on, with a wish for the next boot.
Ask ==
  /\ wish' = TRUE
  /\ running' \in {running, "nothing"}
  /\ UNCHANGED decision

Stop ==
  /\ running' = "nothing"
  /\ UNCHANGED <<decision, wish>>

Restart ==
  /\ decision' = "none"
  /\ running' = "nothing"
  /\ UNCHANGED wish

ContractNext ==
  \/ \E m \in {"normal", "charger"} : Decide(m)
  \/ \E r \in {"desktop", "charging"} : Start(r)
  \/ Serve \/ Ask \/ Stop \/ Restart

ContractSpec == ContractInit /\ [][ContractNext]_contractVars
=============================================================================
