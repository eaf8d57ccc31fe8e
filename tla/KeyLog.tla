------------------------------- MODULE KeyLog -------------------------------
(***************************************************************************)
(* What the server promises of the transparency log, whatever its          *)
(* transactions do: a key is published and comes into force in one step,   *)
(* and nothing is ever put before what has been read.                      *)
(*                                                                         *)
(* Accounts implements this specification with tables, locks and several   *)
(* instances; Witness is a client of it.                                   *)
(***************************************************************************)
EXTENDS Integers, FiniteSets

CONSTANTS Accounts,
          Legacy,     \* the accounts that are older than the log
          MaxRows,    \* bound on the sequence of log_entries
          MaxKeys     \* bound on the keys accounts make

ASSUME KeyLogAssumption ==
  /\ Legacy \subseteq Accounts
  /\ MaxRows \in Nat /\ MaxKeys \in Nat \ {0}

\* Keys are numbered in the order they are made; 1 is the genesis key its account is named after.
Keys  == 1..MaxKeys
Key0  == 0..MaxKeys
NoKey == 0

\* A row of log_entries; `by` is the key that signed the rotation, NoKey without one.
Row  == [seq : 1..MaxRows, account : Accounts, key : Keys, by : Key0]
Tree == SUBSET Row

VARIABLES key,      \* the identity key of each account
          table     \* log_entries, as its readers see it

RowsOf(a)     == {e \in table : e.account = a}
IsLast(e, t)  == \A f \in t : f.seq <= e.seq

\* s has every row of t, and the others come after.
Extends(t, s) == t \subseteq s /\ \A e \in t, f \in s \ t : e.seq < f.seq

LogInit ==
  /\ key = [a \in Accounts |-> IF a \in Legacy THEN 1 ELSE NoKey]
  /\ table = {}

\* Mutant: an entry may appear before one that was read.
PublishAnywhere(row) ==
  /\ \A e \in table : e.seq # row.seq
  /\ table' = table \cup {row}
  /\ key' = [key EXCEPT ![row.account] = row.key]

\* An account is created or rotates: its new key is the last the log has, at once.
Publish(row) ==
  /\ row \notin table /\ Extends(table, table \cup {row})
  /\ table' = table \cup {row}
  /\ key' = [key EXCEPT ![row.account] = row.key]

\* Accounts older than the log enter it with the key they have; one that has entered it in the
\* meantime is entered again, with a key it had.
CatchUp(rows) ==
  /\ Extends(table, table \cup rows)
  /\ \A e \in rows : e.by = NoKey /\ (RowsOf(e.account) = {} => e.key = key[e.account])
  /\ table' = table \cup rows
  /\ UNCHANGED key

LogNext ==
  LET new == table' \ table
  IN (\E row \in new : Publish(row)) \/ CatchUp(new)

LogSpec == LogInit /\ [][LogNext]_<<key, table>>
=============================================================================
