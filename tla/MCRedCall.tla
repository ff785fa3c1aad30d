----------------------------- MODULE MCRedCall -----------------------------
EXTENDS RedCall

(* Two settings; an ATA that has restarted has neither.                    *)
MCSettings == <<"playout", "red">>
MCFactory  == [playout |-> "default", red |-> "off"]
MCProfiles == {[playout |-> "tuned", red |-> "on"]}

(* Helpers that failed, and those nobody waits for any more, yet run.      *)
Lost ==
    {h \in Calls : \/ step[h] = "failed"
                   \/ step[h] \in Ata!Running /\ chan[h] # "preparing"}

Started == {p \in Procs : at[p] # "off"}

(* The bound: one of a second run of the bridge, a restart of the ATA and  *)
(* a lost helper, besides a bridge; or two of them without one.            *)
FewMishaps == Cardinality(Started) + reboots + Cardinality(Lost) <= 2
=============================================================================
