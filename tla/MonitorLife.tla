---------------------------- MODULE MonitorLife ----------------------------
(***************************************************************************)
(* What one collector.Manager looks like from outside: it is started once, *)
(* its context ends once, it then forgets its cancel function ("retired")  *)
(* and only after that closes its session store.  MonitorManager           *)
(* implements this life; Engine gives one to every monitor it starts.      *)
(***************************************************************************)
VARIABLE life

Lives == {"idle", "live", "cancelled", "retired", "closed"}

LifeInit == life = "idle"

\* The context given to Start may end while Start is running.
Begin == life = "idle" /\ life' \in {"live", "cancelled"}

Cancel == life = "live" /\ life' = "cancelled"

Retire == life = "cancelled" /\ life' = "retired"

CloseStore == life = "retired" /\ life' = "closed"

LifeNext == Begin \/ Cancel \/ Retire \/ CloseStore

LifeSpec == LifeInit /\ [][LifeNext]_life
=============================================================================
