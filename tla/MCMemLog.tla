------------------------------ MODULE MCMemLog -------------------------------
(***************************************************************************)
(* MemLog for TLC: one table under every kind of statement, and for longer   *)
(* under the ones that are replayed; two tables of a database; two databases, *)
(* with one and with two names, which share the map from pages to names.     *)
(***************************************************************************)
EXTENDS MemLog

CONSTANTS d1, d2, t1, t2

MCWorkload ==
  {[databases |-> {d1}, names |-> {t1}, writes |-> 3,
    events |-> AllEvents \ {"drop", "reopen", "restart"}],
   [databases |-> {d1}, names |-> {t1}, writes |-> 4, events |-> {"delete"}],
   [databases |-> {d1}, names |-> {t1, t2}, writes |-> 2,
    events |-> {"drop", "load", "restart"}],
   [databases |-> {d1, d2}, names |-> {t1}, writes |-> 2, events |-> {"or rollback", "reopen"}],
   [databases |-> {d1, d2}, names |-> {t1}, writes |-> 1,
    events |-> {"or rollback", "drop", "reopen"}],
   [databases |-> {d1, d2}, names |-> {t1, t2}, writes |-> 1, events |-> {"reopen"}]}

\* Transactions alone.
RollbackWorkload ==
  {[databases |-> {d1}, names |-> {t1}, writes |-> 2, events |-> {}]}

==============================================================================
