--------------------------- MODULE SettingsCache ---------------------------
(***************************************************************************)
(* One setting (packages/core/src/settings.ts): a row in Postgres, and a   *)
(* copy in Redis that readers fill and writers drop, two systems that no   *)
(* transaction spans.                                                      *)
(***************************************************************************)
EXTENDS Naturals

CONSTANTS Readers, Writers,
          Values,     \* a setting is set to them in this order
          MissBound   \* Redis calls that fail

\* What the constants are assumed to be.
Constants == Values \in Nat /\ MissBound \in Nat

VARIABLES
  stored,   \* Setting.value; 0 is the default
  cached,   \* the copy, or Empty
  reader,   \* what a reader will write to the cache, or Empty
  writer,   \* writers that have written the row and not yet dropped the copy
  misses    \* faults so far

vars == <<stored, cached, reader, writer, misses>>

Empty == Values + 1

TypeOK ==
  /\ stored \in 0 .. Values /\ cached \in 0 .. Empty
  /\ reader \in [Readers -> 0 .. Empty]
  /\ writer \subseteq Writers /\ misses \in 0 .. MissBound

Init ==
  /\ stored = 0 /\ cached = Empty
  /\ reader = [r \in Readers |-> Empty] /\ writer = {} /\ misses = 0

\* getSetting() on a miss, or getSettings(): the row ...
ReadRow(r) ==
  /\ reader[r] = Empty /\ reader' = [reader EXCEPT ![r] = stored]
  /\ UNCHANGED <<stored, cached, writer, misses>>

\* ... and, later, the copy, for CACHE_TTL_SECONDS.
FillCache(r) ==
  /\ reader[r] # Empty
  /\ cached' = reader[r] /\ reader' = [reader EXCEPT ![r] = Empty]
  /\ UNCHANGED <<stored, writer, misses>>

FillFails(r) ==
  /\ reader[r] # Empty /\ misses < MissBound
  /\ misses' = misses + 1 /\ reader' = [reader EXCEPT ![r] = Empty]
  /\ UNCHANGED <<stored, cached, writer>>

WriteRow(w) ==
  /\ w \notin writer /\ stored < Values
  /\ stored' = stored + 1 /\ writer' = writer \cup {w}
  /\ UNCHANGED <<cached, reader, misses>>

DropCache(w) ==
  /\ w \in writer
  /\ cached' = Empty /\ writer' = writer \ {w}
  /\ UNCHANGED <<stored, reader, misses>>

\* The writer dies, or its DEL fails, after the row is written.
DropFails(w) ==
  /\ w \in writer /\ misses < MissBound
  /\ misses' = misses + 1 /\ writer' = writer \ {w}
  /\ UNCHANGED <<stored, cached, reader>>

\* Variant: a copy is kept until a writer drops it.
ExpireNever == FALSE /\ UNCHANGED vars

Expire ==
  /\ cached # Empty /\ cached' = Empty
  /\ UNCHANGED <<stored, reader, writer, misses>>

Next ==
  \/ Expire
  \/ \E r \in Readers : ReadRow(r) \/ FillCache(r) \/ FillFails(r)
  \/ \E w \in Writers : WriteRow(w) \/ DropCache(w) \/ DropFails(w)

Spec == Init /\ [][Next]_vars

-----------------------------------------------------------------------------
\* A copy that a reader wrote back after the writer dropped it, or that no writer
\* came to drop, is not read for ever: once the setting is left alone the cache
\* holds its value or nothing, for good (CACHE_TTL_SECONDS).
SettlesOnRow == <>[](cached \in {stored, Empty})

=============================================================================
