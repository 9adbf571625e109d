---------------------------- MODULE FindingsStore ----------------------------
(***************************************************************************)
(* The findings store (store/store.py) and its audit log (store/audit.py): *)
(* every mutation first appends one line to a hash-chained log, then       *)
(* commits to SQLite.  Processes share both files when they use one output *)
(* directory.                                                              *)
(*                                                                         *)
(* The hash is ideal: hashing a line onto a chain appends its payload to   *)
(* the sequence of payloads hashed so far, so hashes are equal only for    *)
(* equal chains.                                                           *)
(***************************************************************************)
EXTENDS Integers, FiniteSets, Sequences, SequencesExt

CONSTANTS
  Processes,
  Inserts,        \* rows to insert: a run, a decision, an asset, a finding, a tool invocation
  Keys, Values,   \* an asset's extra JSON: keys and values
  MaxLines,       \* bound: length of the log
  MaxPowerLosses, \* bound: power losses
  MaxTampers,     \* bound: changes made to the log file by hand
  None

ASSUME BoundsAssumption ==
  MaxLines \in Nat /\ MaxPowerLosses \in Nat /\ MaxTampers \in Nat

VARIABLES
  log,       \* events.jsonl: lines [prev, payload, hash, eol], some torn
  durable,   \* how many of its lines have reached the disk
  inserted,  \* the inserted rows, in commit order: their audit payloads
  extra,     \* the extra column of one asset: key -> value or None
  pc,        \* process -> "idle", "last_hash", "write", "commit"
  op,        \* process -> the mutation under way
  prev,      \* process -> the last hash it read
  merged,    \* process -> the extra it read, its updates merged in
  updates,   \* history: the extra updates committed, key -> value or None
  losses, tampers  \* how many there were

vars == <<log, durable, inserted, extra, pc, op, prev, merged, updates, losses, tampers>>

GENESIS == <<>>
\* A line json.loads refuses, with or without a newline at its end.
torn_line(eol) == [prev |-> None, payload |-> None, hash |-> None, eol |-> eol]

is_torn(l) == l.payload = None

\* A mutation is an insert of a row or an update of one key of extra.
Ops == [kind : {"insert"}, row : Inserts] \cup [kind : {"extra"}, key : Keys, value : Values]

\* What the log says of a mutation: a row in full, an extra update only by key.
payload(o) == IF o.kind = "insert" THEN o ELSE [kind |-> "extra", key |-> o.key]

ASSUME NoneAssumption == None \notin {payload(o) : o \in Ops}

Init ==
  /\ log = <<>> /\ durable = 0
  /\ inserted = <<>>
  /\ extra = [k \in Keys |-> None]
  /\ pc = [p \in Processes |-> "idle"]
  /\ op = [p \in Processes |-> None]
  /\ prev = [p \in Processes |-> None]
  /\ merged = [p \in Processes |-> None]
  /\ updates = [k \in Keys |-> None]
  /\ losses = 0 /\ tampers = 0

\* Mutant: the updates replace what was there.
merge_replaces(o) == [k \in {o.key} |-> o.value]

merge(o) == [extra EXCEPT ![o.key] = o.value]

\* A mutation begins; update_asset_extra first reads the column and merges.
Begin(p) ==
  /\ pc[p] = "idle"
  /\ \E o \in Ops :
       /\ op' = [op EXCEPT ![p] = o]
       /\ merged' = [merged EXCEPT ![p] =
                       IF o.kind = "extra" THEN merge(o) ELSE None]
  /\ pc' = [pc EXCEPT ![p] = "last_hash"]
  /\ UNCHANGED <<log, durable, inserted, extra, prev, updates, losses, tampers>>

done(p) ==
  /\ pc' = [pc EXCEPT ![p] = "idle"]
  /\ op' = [op EXCEPT ![p] = None]
  /\ prev' = [prev EXCEPT ![p] = None]
  /\ merged' = [merged EXCEPT ![p] = None]

readable == \A i \in DOMAIN log : ~is_torn(log[i])

\* Mutant: every line starts the chain anew.
last_hash_genesis == GENESIS

last_hash == IF log = <<>> THEN GENESIS ELSE Last(log).hash

\* Mutant: after a line that does not parse the chain starts anew.
ReadLastHash_tolerant(p) ==
  /\ pc[p] = "last_hash"
  /\ prev' = [prev EXCEPT ![p] = IF readable THEN last_hash ELSE GENESIS]
  /\ pc' = [pc EXCEPT ![p] = "write"]
  /\ UNCHANGED <<log, durable, inserted, extra, op, merged, updates, losses, tampers>>

\* _last_hash parses every line of the file, so one torn line makes every
\* later append raise before it writes anything.
ReadLastHash(p) ==
  /\ pc[p] = "last_hash"
  /\ \/ /\ readable
        /\ prev' = [prev EXCEPT ![p] = last_hash]
        /\ pc' = [pc EXCEPT ![p] = "write"]
        /\ UNCHANGED <<op, merged>>
     \/ /\ ~readable
        /\ done(p)
  /\ UNCHANGED <<log, durable, inserted, extra, updates, losses, tampers>>

line(h, pl, eol) == [prev |-> h, payload |-> pl, hash |-> Append(h, pl), eol |-> eol]

\* Mutant: the line stays in the buffer.
with_line_unflushed(l) == log

\* The file after a write.  A last line without its newline swallows what is
\* written next, and neither can be parsed any more.
with_line(l) ==
  IF log # <<>> /\ ~Last(log).eol THEN Append(Front(log), torn_line(l.eol)) ELSE Append(log, l)

\* The line is written and flushed to the operating system, in one write.
Write(p) ==
  /\ pc[p] = "write"
  /\ Len(log) < MaxLines
  /\ log' = with_line(line(prev[p], payload(op[p]), TRUE))
  /\ pc' = [pc EXCEPT ![p] = "commit"]
  /\ UNCHANGED <<durable, inserted, extra, op, prev, merged, updates, losses, tampers>>

Commit(p) ==
  /\ pc[p] = "commit"
  /\ IF op[p].kind = "insert"
     THEN /\ inserted' = Append(inserted, payload(op[p]))
          /\ UNCHANGED <<extra, updates>>
     ELSE /\ extra' = merged[p]
          /\ updates' = [updates EXCEPT ![op[p].key] = op[p].value]
          /\ UNCHANGED inserted
  /\ done(p)
  /\ UNCHANGED <<log, durable, losses, tampers>>

\* A process dies or raises anywhere, also (the disk is full) with its line
\* written only in part.
Crash(p) ==
  /\ pc[p] # "idle"
  /\ done(p)
  /\ \/ UNCHANGED log
     \/ /\ pc[p] = "write" /\ Len(log) < MaxLines
        /\ \/ log' = with_line(torn_line(FALSE))
           \/ log' = with_line(line(prev[p], payload(op[p]), FALSE))
  /\ UNCHANGED <<durable, inserted, extra, updates, losses, tampers>>

\* The operating system writes the log back when it likes: append flushes but
\* does not fsync.  SQLite has synced every commit.
WriteBack ==
  /\ durable < Len(log)
  /\ durable' = Len(log)
  /\ UNCHANGED <<log, inserted, extra, pc, op, prev, merged, updates, losses, tampers>>

PowerLoss ==
  /\ losses < MaxPowerLosses
  /\ losses' = losses + 1
  /\ \E n \in durable..Len(log) : log' = SubSeq(log, 1, n) /\ durable' = n
  /\ pc' = [p \in Processes |-> "idle"]
  /\ op' = [p \in Processes |-> None]
  /\ prev' = [p \in Processes |-> None]
  /\ merged' = [p \in Processes |-> None]
  /\ UNCHANGED <<inserted, extra, updates, tampers>>

\* Someone edits a whole line's payload, or takes out a line that is not the last.
Tamper ==
  /\ tampers < MaxTampers
  /\ tampers' = tampers + 1
  /\ \E i \in DOMAIN log :
       \/ \E o \in Ops : /\ ~is_torn(log[i]) /\ payload(o) # log[i].payload
                         /\ log' = [log EXCEPT ![i].payload = payload(o)]
       \/ i < Len(log) /\ log' = RemoveAt(log, i)
  /\ durable' = Len(log')
  /\ UNCHANGED <<inserted, extra, pc, op, prev, merged, updates, losses>>

Next ==
  \/ \E p \in Processes : Begin(p) \/ ReadLastHash(p) \/ Write(p) \/ Commit(p) \/ Crash(p)
  \/ WriteBack \/ PowerLoss \/ Tamper

Spec == Init /\ [][Next]_vars

----------------------------------------------------------------------------
\* Mutant: only the links are followed.
verify_chain_links(lines) ==
  \A i \in DOMAIN lines :
    lines[i].prev = IF i = 1 THEN GENESIS ELSE lines[i - 1].hash

\* Each line carries the hash before it and its own, which is the hash of
\* that one and its payload; a torn line makes verify_chain raise.
verify_chain(lines) ==
  \A i \in DOMAIN lines :
    LET before == IF i = 1 THEN GENESIS ELSE lines[i - 1].hash
    IN  lines[i].prev = before /\ lines[i].hash = Append(before, lines[i].payload)

\* Lines, rows and locals have their types.
TypeOK ==
  /\ durable \in 0..Len(log)
  /\ \A i \in DOMAIN log : is_torn(log[i]) \/ log[i].payload \in {payload(o) : o \in Ops}
  /\ inserted \in Seq({payload(o) : o \in Ops})
  /\ extra \in [Keys -> Values \cup {None}]
  /\ \A p \in Processes : pc[p] # "idle" => op[p] \in Ops

\* docs/USAGE.md: verify_chain is True if the log is untampered.
ChainVerifies == readable /\ tampers = 0 => verify_chain(log)

\* A log edited or cut inside once never verifies again, whatever is appended
\* later (a second change by hand may be the one that undoes the first).
TamperEvident == readable /\ tampers = 1 => ~verify_chain(log)

\* Of the rows r in the database, how many have no line that can be read.
unlogged(r) ==
  LET of_r == [kind |-> "insert", row |-> r]
  IN  Cardinality({i \in DOMAIN inserted : inserted[i] = of_r})
        - Cardinality({i \in DOMAIN log : log[i].payload = of_r})

\* Every row of the database has a line of its own in the log (store.py: the
\* audit line is appended before the row), wherever a process died, as long as
\* the log can be read and no power loss took lines the system had not synced.
AuditBeforeDb ==
  readable /\ losses = 0 /\ tampers = 0 => \A r \in Inserts : unlogged(r) <= 0

\* A log that can no longer be read stops its writer: no line is written to it,
\* and no mutation gets past it.  Only one that was past it already, its line the
\* one that ran into a line cut before its newline, may still be committed.
DamageStopsWriter ==
  [][~readable /\ tampers' = 0 /\ losses' = losses =>
       /\ log' = log
       /\ \A p \in Processes :
            pc'[p] = "commit" => pc[p] = "commit" /\ op'[p] = op[p]]_vars

\* store.py:132: an update is merged into extra and touches nothing else.
ExtraMerged == extra = updates
=============================================================================
