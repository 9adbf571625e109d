------------------------- MODULE FindingsStoreProofs -------------------------
(* The store and its log, for any rows, keys and values and any number of    *)
(* crashes and power losses.  Where a statement holds only while one process *)
(* uses the output directory, it says so (Alone); the run of two processes   *)
(* shows that it must.                                                       *)
EXTENDS FindingsStore, SequenceTheorems, FiniteSetTheorems, TLAPS

Alone == \A p, q \in Processes : p = q

----------------------------------------------------------------------------
(* Types.                                                                  *)

Payloads == {payload(o) : o \in Ops}
Hashes   == Seq(Payloads)
Good     == [prev : Hashes, payload : Payloads, hash : Hashes, eol : BOOLEAN]
Torn     == [prev : {None}, payload : {None}, hash : {None}, eol : BOOLEAN]
Lines    == Good \cup Torn
Extras   == [Keys -> Values \cup {None}]

\* Every variable, locals included: what a process holds between its steps.
Types ==
  /\ log \in Seq(Lines) /\ durable \in 0..Len(log)
  /\ inserted \in Seq(Payloads) /\ extra \in Extras /\ updates \in Extras
  /\ pc \in [Processes -> {"idle", "last_hash", "write", "commit"}]
  /\ op \in [Processes -> Ops \cup {None}]
  /\ prev \in [Processes -> Hashes \cup {None}]
  /\ merged \in [Processes -> Extras \cup {None}]
  /\ losses \in Nat /\ tampers \in Nat
  /\ \A p \in Processes :
       /\ pc[p] # "idle" => op[p] \in Ops
       /\ pc[p] # "idle" /\ op[p].kind = "extra" => merged[p] \in Extras
       /\ pc[p] = "write" => prev[p] \in Hashes

\* A line is torn exactly when it is none of the good ones.
LEMMA TornOrGood ==
  ASSUME NEW l \in Lines
  PROVE  /\ is_torn(l) => l \in Torn
         /\ ~is_torn(l) => l \in Good
BY NoneAssumption DEF Lines, Good, Torn, is_torn, Payloads

\* What is written is a line, whole or torn.
LEMMA WrittenIsLine ==
  /\ \A h \in Hashes, o \in Ops, eol \in BOOLEAN :
       line(h, payload(o), eol) \in Good /\ ~is_torn(line(h, payload(o), eol))
  /\ \A eol \in BOOLEAN : torn_line(eol) \in Torn /\ is_torn(torn_line(eol))
<1>1. ASSUME NEW h \in Hashes, NEW o \in Ops, NEW eol \in BOOLEAN
      PROVE  line(h, payload(o), eol) \in Good /\ ~is_torn(line(h, payload(o), eol))
  <2>1. payload(o) \in Payloads /\ payload(o) # None
    BY NoneAssumption DEF Payloads
  <2>2. Append(h, payload(o)) \in Hashes
    BY <2>1, AppendProperties DEF Hashes
  <2> QED
    BY <2>1, <2>2 DEF line, Good, is_torn
<1> QED
  BY <1>1 DEF torn_line, Torn, is_torn

\* The file after a write: one line more, or the last one torn in its place.
LEMMA WithLine ==
  ASSUME log \in Seq(Lines), NEW l \in Lines
  PROVE  /\ with_line(l) \in Seq(Lines)
         /\ \/ /\ with_line(l) = Append(log, l)
               /\ log # <<>> => Last(log).eol
            \/ /\ log # <<>> /\ ~Last(log).eol
               /\ Len(with_line(l)) = Len(log)
               /\ \A i \in 1..(Len(log) - 1) : with_line(l)[i] = log[i]
               /\ is_torn(with_line(l)[Len(log)])
<1>1. CASE log # <<>> /\ ~Last(log).eol
  <2> DEFINE t == torn_line(l.eol)
             n == Len(log)
             front == Front(log)
  <2>1. l.eol \in BOOLEAN
    BY DEF Lines, Good, Torn
  <2>2. t \in Lines /\ is_torn(t)
    BY <2>1, WrittenIsLine DEF Lines
  <2>3. n \in Nat \ {0}
    BY <1>1, EmptySeq, LenProperties
  <2>4. front = SubSeq(log, 1, n - 1)
    BY DEF Front
  <2>5. \A i \in 1..(n - 1) : log[i] \in Lines
    BY <2>3, ElementOfSeq
  <2>6. front \in Seq(Lines) /\ Len(front) = n - 1 /\ \A i \in 1..(n - 1) : front[i] = log[i]
    <3> HIDE DEF front, n
    <3>1. n - 1 \in Int /\ 1 \in Int /\ (IF 1 <= n - 1 THEN n - 1 - 1 + 1 ELSE 0) = n - 1
      BY <2>3
    <3>2. SubSeq(log, 1, n - 1) \in Seq(Lines)
      BY <2>5, <3>1, SubSeqProperties
    <3>3. /\ Len(SubSeq(log, 1, n - 1)) = n - 1
          /\ \A i \in 1..(n - 1) : SubSeq(log, 1, n - 1)[i] = log[1 + i - 1]
      BY <2>5, <3>1, SubSeqProperties
    <3> QED
      BY <2>3, <2>4, <3>2, <3>3
  <2>7. with_line(l) = Append(front, t)
    BY <1>1 DEF with_line
  <2> HIDE DEF t, front
  <2> QED
    BY <1>1, <2>2, <2>3, <2>6, <2>7, AppendProperties
<1>2. CASE ~(log # <<>> /\ ~Last(log).eol)
  <2>1. with_line(l) = Append(log, l)
    BY <1>2 DEF with_line
  <2> QED
    BY <1>2, <2>1, AppendProperties
<1> QED
  BY <1>1, <1>2

\* A process that ends its mutation holds nothing.
LEMMA DoneTypes ==
  ASSUME Types, NEW p \in Processes, done(p)
  PROVE  /\ pc' \in [Processes -> {"idle", "last_hash", "write", "commit"}]
         /\ op' \in [Processes -> Ops \cup {None}]
         /\ prev' \in [Processes -> Hashes \cup {None}]
         /\ merged' \in [Processes -> Extras \cup {None}]
         /\ pc'[p] = "idle"
         /\ \A q \in Processes \ {p} : pc'[q] = pc[q] /\ op'[q] = op[q]
                                       /\ prev'[q] = prev[q] /\ merged'[q] = merged[q]
         /\ \A q \in Processes :
              /\ pc'[q] # "idle" => op'[q] \in Ops
              /\ pc'[q] # "idle" /\ op'[q].kind = "extra" => merged'[q] \in Extras
              /\ pc'[q] = "write" => prev'[q] \in Hashes
BY DEF Types, done

\* The hash the next line is chained to, while the log can be read.
LEMMA LastHashIsHash ==
  ASSUME Types, readable
  PROVE  last_hash \in Hashes
<1>1. CASE log = <<>>
  BY <1>1 DEF last_hash, GENESIS, Hashes
<1>2. CASE log # <<>>
  <2>1. Len(log) \in DOMAIN log
    BY <1>2, EmptySeq, LenProperties DEF Types
  <2>2. Last(log) \in Good
    BY <2>1, TornOrGood, ElementOfSeq DEF Types, readable, Last
  <2> QED
    BY <1>2, <2>2 DEF last_hash, Good
<1> QED
  BY <1>1, <1>2

LEMMA TypesStep == Types /\ [Next]_vars => Types'
<1> SUFFICES ASSUME Types, [Next]_vars PROVE Types'
  OBVIOUS
<1>1. ASSUME NEW p \in Processes, Begin(p) PROVE Types'
  <2>1. PICK o \in Ops :
          /\ op' = [op EXCEPT ![p] = o]
          /\ merged' = [merged EXCEPT ![p] = IF o.kind = "extra" THEN merge(o) ELSE None]
    BY <1>1 DEF Begin
  <2>2. o.kind = "extra" => merge(o) \in Extras
    BY DEF Types, Ops, Extras, merge
  <2> HIDE DEF Extras
  <2> QED
    BY <1>1, <2>1, <2>2 DEF Types, Begin
<1>2. ASSUME NEW p \in Processes, ReadLastHash(p) PROVE Types'
  <2>1. CASE readable
    <3>1. prev' = [prev EXCEPT ![p] = last_hash] /\ last_hash \in Hashes
      BY <1>2, <2>1, LastHashIsHash DEF ReadLastHash
    <3> QED
      BY <1>2, <2>1, <3>1 DEF Types, ReadLastHash
  <2>2. CASE ~readable
    BY <1>2, <2>2, DoneTypes DEF Types, ReadLastHash
  <2> QED
    BY <2>1, <2>2
<1>3. ASSUME NEW p \in Processes, Write(p) PROVE Types'
  <2> DEFINE l == line(prev[p], payload(op[p]), TRUE)
  <2>1. l \in Lines /\ log' = with_line(l)
    BY <1>3, WrittenIsLine DEF Types, Write, Lines
  <2> HIDE DEF l
  <2>2. log' \in Seq(Lines) /\ Len(log') \in Nat /\ Len(log') >= Len(log) /\ Len(log) \in Nat
    BY <2>1, WithLine, AppendProperties, LenProperties DEF Types
  <2>3. durable' = durable /\ durable \in 0..Len(log)
    BY <1>3 DEF Types, Write
  <2>4. durable' \in 0..Len(log')
    BY <2>2, <2>3
  <2> QED
    BY <1>3, <2>2, <2>4 DEF Types, Write
<1>4. ASSUME NEW p \in Processes, Commit(p) PROVE Types'
  <2>1. op[p] \in Ops /\ payload(op[p]) \in Payloads
    BY <1>4 DEF Types, Commit, Payloads
  <2>2. inserted' \in Seq(Payloads) /\ extra' \in Extras /\ updates' \in Extras
    <3>1. CASE op[p].kind = "insert"
      <4>1. inserted' = Append(inserted, payload(op[p])) /\ UNCHANGED <<extra, updates>>
        BY <1>4, <3>1 DEF Commit
      <4>2. inserted \in Seq(Payloads) /\ extra \in Extras /\ updates \in Extras
        BY DEF Types
      <4> QED
        BY <2>1, <4>1, <4>2, AppendProperties
    <3>2. CASE op[p].kind # "insert"
      <4>1. /\ op[p].kind = "extra" /\ op[p].value \in Values
            /\ extra' = merged[p] /\ merged[p] \in Extras
            /\ updates' = [updates EXCEPT ![op[p].key] = op[p].value]
            /\ UNCHANGED inserted
        BY <1>4, <2>1, <3>2 DEF Types, Commit, Ops
      <4> QED
        BY <4>1 DEF Types, Extras
    <3> QED
      BY <3>1, <3>2
  <2> QED
    BY <1>4, <2>2, DoneTypes DEF Types, Commit
<1>5. ASSUME NEW p \in Processes, Crash(p) PROVE Types'
  <2>1. log' = log \/ \E l \in Lines : log' = with_line(l)
    BY <1>5, WrittenIsLine DEF Types, Crash, Lines
  <2>2. log' \in Seq(Lines) /\ Len(log') \in Nat /\ Len(log') >= Len(log) /\ Len(log) \in Nat
    BY <2>1, WithLine, AppendProperties, LenProperties DEF Types
  <2>3. durable' = durable /\ durable \in 0..Len(log)
    BY <1>5 DEF Types, Crash
  <2>4. durable' \in 0..Len(log')
    BY <2>2, <2>3
  <2> QED
    BY <1>5, <2>2, <2>4, DoneTypes DEF Types, Crash
<1>6. CASE WriteBack
  BY <1>6, LenProperties DEF Types, WriteBack
<1>7. CASE PowerLoss
  <2>1. PICK n \in durable..Len(log) : log' = SubSeq(log, 1, n) /\ durable' = n
    BY <1>7 DEF PowerLoss
  <2>2. n \in Nat /\ n <= Len(log) /\ Len(log) \in Nat
    BY <2>1, LenProperties DEF Types
  <2>3. \A i \in 1..n : log[i] \in Lines
    BY <2>2, ElementOfSeq DEF Types
  <2>4. log' \in Seq(Lines) /\ Len(log') = n
    BY <2>1, <2>2, <2>3, SubSeqProperties
  <2> QED
    BY <1>7, <2>1, <2>2, <2>4 DEF Types, PowerLoss
<1>8. CASE Tamper
  <2>1. PICK i \in DOMAIN log :
          \/ \E o \in Ops : /\ ~is_torn(log[i])
                            /\ log' = [log EXCEPT ![i].payload = payload(o)]
          \/ log' = RemoveAt(log, i)
    BY <1>8 DEF Tamper
  <2>2. i \in 1..Len(log) /\ Len(log) \in Nat /\ log \in Seq(Lines)
    BY LenProperties DEF Types
  <2>3. ASSUME NEW o \in Ops, ~is_torn(log[i]), log' = [log EXCEPT ![i].payload = payload(o)]
        PROVE  log' \in Seq(Lines)
    <3> DEFINE l == [log[i] EXCEPT !.payload = payload(o)]
    <3>1. log[i] \in Good /\ payload(o) \in Payloads
      BY <2>2, <2>3, TornOrGood, ElementOfSeq DEF Payloads
    <3>2. l \in Lines
      BY <3>1 DEF Good, Lines
    <3>3. log' = [log EXCEPT ![i] = l]
      BY <2>3
    <3> HIDE DEF l
    <3>4. [log EXCEPT ![i] = l] \in Seq(Lines)
      BY <2>2, <3>2, ExceptSeq
    <3> QED
      BY <3>3, <3>4
  <2>4. ASSUME log' = RemoveAt(log, i) PROVE log' \in Seq(Lines)
    <3> DEFINE before == SubSeq(log, 1, i - 1)
               after  == SubSeq(log, i + 1, Len(log))
    <3>1. /\ \A j \in 1..(i - 1) : log[j] \in Lines
          /\ \A j \in (i + 1)..Len(log) : log[j] \in Lines
      BY <2>2, ElementOfSeq
    <3>2. before \in Seq(Lines) /\ after \in Seq(Lines)
      BY <2>2, <3>1, SubSeqProperties
    <3>3. log' = before \o after
      BY <2>4 DEF RemoveAt
    <3> HIDE DEF before, after
    <3> QED
      BY <3>2, <3>3, ConcatProperties
  <2>5. log' \in Seq(Lines)
    BY <2>1, <2>3, <2>4
  <2>6. durable' \in 0..Len(log')
    BY <1>8, <2>5, LenProperties DEF Tamper
  <2> QED
    BY <1>8, <2>5, <2>6 DEF Types, Tamper
<1>9. CASE UNCHANGED vars
  BY <1>9 DEF Types, vars
<1> QED
  BY <1>1, <1>2, <1>3, <1>4, <1>5, <1>6, <1>7, <1>8, <1>9 DEF Next

LEMMA TypesInvariant == Spec => []Types
<1>1. Init => Types
  BY DEF Init, Types, Hashes, Extras
<1> QED
  BY <1>1, TypesStep, PTL DEF Spec

\* Lines, rows and locals have their types.
THEOREM StoreTypes == Spec => []TypeOK
<1>1. ASSUME Types PROVE TypeOK
  <2>1. \A i \in DOMAIN log : is_torn(log[i]) \/ log[i].payload \in Payloads
    BY <1>1, TornOrGood, ElementOfSeq, LenProperties DEF Types, Good
  <2> QED
    BY <1>1, <2>1 DEF Types, TypeOK, Payloads, Extras
<1> QED
  BY <1>1, TypesInvariant, PTL

----------------------------------------------------------------------------
(* The chain.  A log cut by a power loss is read again, so the links must   *)
(* hold up to every readable line, not only when the whole file is; and a   *)
(* process about to write must hold the hash of the line that is still the  *)
(* last, which is where Alone is needed.                                    *)

ReadableTo(lines, i) == \A j \in 1..i : ~is_torn(lines[j])

Linked(lines, i) ==
  LET before == IF i = 1 THEN GENESIS ELSE lines[i - 1].hash
  IN  lines[i].prev = before /\ lines[i].hash = Append(before, lines[i].payload)

Chained(lines) == \A i \in DOMAIN lines : ReadableTo(lines, i) => Linked(lines, i)

ChainInv ==
  tampers = 0 =>
    /\ Chained(log)
    /\ \A p \in Processes : pc[p] = "write" => readable /\ prev[p] = last_hash

\* A line chained to the last one keeps the log chained, whole or not.
LEMMA AppendChained ==
  ASSUME Types, Chained(log), NEW o \in Ops, NEW eol \in BOOLEAN, last_hash \in Hashes
  PROVE  Chained(Append(log, line(last_hash, payload(o), eol)))
<1> DEFINE l == line(last_hash, payload(o), eol)
           new == Append(log, l)
           n == Len(log)
<1>1. l \in Lines /\ log \in Seq(Lines) /\ n \in Nat
  BY WrittenIsLine, LenProperties DEF Types, Lines
<1>2. l.prev = last_hash /\ l.hash = Append(last_hash, l.payload)
  BY DEF line
<1>3. last_hash = IF n = 0 THEN GENESIS ELSE log[n].hash
  BY <1>1, EmptySeq DEF last_hash, Last
<1> HIDE DEF l
<1>4. /\ Len(new) = n + 1 /\ new[n + 1] = l /\ DOMAIN new = 1..(n + 1)
      /\ \A i \in 1..n : new[i] = log[i]
  BY <1>1, AppendProperties, LenProperties
<1> HIDE DEF new, n
<1>5. ASSUME NEW i \in 1..n, ReadableTo(new, i) PROVE Linked(new, i)
  <2>1. ReadableTo(log, i)
    BY <1>1, <1>4, <1>5 DEF ReadableTo
  <2>2. Linked(log, i)
    BY <1>1, <2>1, LenProperties DEF Chained, n
  <2>3. new[i] = log[i] /\ (i # 1 => new[i - 1] = log[i - 1])
    BY <1>1, <1>4
  <2> QED
    BY <2>2, <2>3 DEF Linked
<1>6. Linked(new, n + 1)
  <2>1. n # 0 => new[n] = log[n]
    BY <1>1, <1>4
  <2> QED
    BY <1>1, <1>2, <1>3, <1>4, <2>1 DEF Linked
<1>7. Chained(new)
  BY <1>1, <1>4, <1>5, <1>6 DEF Chained
<1> QED
  BY <1>7 DEF new, l

\* A torn line at the end of a chained log leaves it chained: nothing at or
\* after it is readable.
LEMMA TornChained ==
  ASSUME NEW old \in Seq(Lines), NEW new \in Seq(Lines), Chained(old), NEW n \in Nat,
         n <= Len(old), Len(new) \in {n, n + 1},
         \A i \in 1..n : new[i] = old[i],
         Len(new) = n + 1 => is_torn(new[n + 1])
  PROVE  Chained(new)
<1> SUFFICES ASSUME NEW i \in DOMAIN new, ReadableTo(new, i) PROVE Linked(new, i)
  BY DEF Chained
<1>1. i \in 1..Len(new) /\ Len(old) \in Nat /\ DOMAIN old = 1..Len(old)
  BY LenProperties
<1>2. i \in 1..n
  BY <1>1 DEF ReadableTo
<1>3. ReadableTo(old, i) /\ i \in DOMAIN old
  BY <1>1, <1>2 DEF ReadableTo
<1>4. Linked(old, i)
  BY <1>3 DEF Chained
<1>5. new[i] = old[i] /\ (i # 1 => new[i - 1] = old[i - 1])
  BY <1>2
<1> QED
  BY <1>4, <1>5 DEF Linked

LEMMA ChainStep ==
  ASSUME Alone, Types, ChainInv, [Next]_vars PROVE ChainInv'
<1>1. CASE tampers' # 0
  BY <1>1 DEF ChainInv
<1>2. ASSUME tampers' = 0, tampers = 0, UNCHANGED log,
             \A q \in Processes : pc'[q] = "write" => pc[q] = "write" /\ prev'[q] = prev[q]
      PROVE  ChainInv'
  BY <1>2 DEF ChainInv, readable, last_hash
<1>3. ASSUME NEW p \in Processes, NEW l \in Lines, tampers = 0, log' = with_line(l),
             pc[p] = "write", pc'[p] # "write",
             is_torn(l) \/ \E o \in Ops, eol \in BOOLEAN : l = line(prev[p], payload(o), eol)
      PROVE  ChainInv'
  <2>1. Chained(log) /\ readable /\ prev[p] = last_hash /\ log \in Seq(Lines)
    BY <1>3 DEF ChainInv, Types
  <2>2. Len(log) \in Nat /\ log' \in Seq(Lines)
    BY <1>3, <2>1, WithLine, LenProperties
  <2>3. Chained(log')
    <3>1. CASE log' = Append(log, l) /\ is_torn(l)
      <4>1. /\ Len(log') = Len(log) + 1 /\ log'[Len(log) + 1] = l
            /\ \A i \in 1..Len(log) : log'[i] = log[i]
        BY <2>1, <3>1, AppendProperties
      <4> DEFINE n == Len(log)
      <4>2. /\ n \in Nat /\ n <= Len(log) /\ Len(log') = n + 1 /\ is_torn(log'[n + 1])
            /\ \A i \in 1..n : log'[i] = log[i]
        BY <2>2, <3>1, <4>1
      <4> HIDE DEF n
      <4> QED
        BY <2>1, <2>2, <4>2, TornChained
    <3>2. CASE log' = Append(log, l) /\ ~is_torn(l)
      BY <1>3, <2>1, <3>2, AppendChained, LastHashIsHash
    <3>3. CASE /\ log # <<>> /\ Len(log') = Len(log)
               /\ \A i \in 1..(Len(log) - 1) : log'[i] = log[i]
               /\ is_torn(log'[Len(log)])
      <4>1. Len(log) - 1 \in Nat
        BY <2>1, <2>2, <3>3, EmptySeq
      <4> DEFINE n == Len(log) - 1
      <4>2. /\ n \in Nat /\ n <= Len(log) /\ Len(log') = n + 1 /\ n + 1 = Len(log)
            /\ \A i \in 1..n : log'[i] = log[i]
        BY <2>2, <3>3, <4>1
      <4>3. is_torn(log'[n + 1])
        BY <3>3, <4>2
      <4> HIDE DEF n
      <4> QED
        BY <2>1, <2>2, <4>2, <4>3, TornChained
    <3> QED
      BY <1>3, <2>1, <3>1, <3>2, <3>3, WithLine
  <2>4. \A q \in Processes : pc'[q] # "write"
    BY <1>3 DEF Alone
  <2> QED
    BY <2>3, <2>4 DEF ChainInv
<1>4. ASSUME NEW p \in Processes, Begin(p) PROVE ChainInv'
  BY <1>1, <1>2, <1>4 DEF Begin, Types
<1>5. ASSUME NEW p \in Processes, ReadLastHash(p) PROVE ChainInv'
  <2>1. CASE readable
    <3>1. UNCHANGED <<log, tampers>> /\ pc'[p] = "write" /\ prev'[p] = last_hash
      BY <1>5, <2>1 DEF ReadLastHash, Types
    <3>2. \A q \in Processes : q = p
      BY DEF Alone
    <3> QED
      BY <2>1, <3>1, <3>2 DEF ChainInv, readable, last_hash
  <2>2. CASE ~readable
    BY <1>1, <1>2, <1>5, <2>2, DoneTypes DEF ReadLastHash
  <2> QED
    BY <2>1, <2>2
<1>6. ASSUME NEW p \in Processes, Write(p) PROVE ChainInv'
  <2>1. /\ pc[p] = "write" /\ pc'[p] = "commit" /\ op[p] \in Ops /\ prev[p] \in Hashes
        /\ tampers' = tampers /\ log' = with_line(line(prev[p], payload(op[p]), TRUE))
    BY <1>6 DEF Write, Types
  <2>2. line(prev[p], payload(op[p]), TRUE) \in Lines
    BY <2>1, WrittenIsLine DEF Lines
  <2> QED
    BY <1>1, <1>3, <2>1, <2>2
<1>7. ASSUME NEW p \in Processes, Commit(p) PROVE ChainInv'
  BY <1>1, <1>2, <1>7, DoneTypes DEF Commit
<1>8. ASSUME NEW p \in Processes, Crash(p) PROVE ChainInv'
  <2>1. CASE UNCHANGED log
    BY <1>1, <1>2, <1>8, <2>1, DoneTypes DEF Crash
  <2>2. CASE /\ pc[p] = "write"
             /\ \/ log' = with_line(torn_line(FALSE))
                \/ log' = with_line(line(prev[p], payload(op[p]), FALSE))
    <3>1. op[p] \in Ops /\ prev[p] \in Hashes /\ pc'[p] = "idle" /\ tampers' = tampers
      BY <1>8, <2>2, DoneTypes DEF Crash, Types
    <3>2. /\ torn_line(FALSE) \in Lines /\ is_torn(torn_line(FALSE))
          /\ line(prev[p], payload(op[p]), FALSE) \in Lines
      BY <3>1, WrittenIsLine DEF Lines
    <3> QED
      BY <1>1, <1>3, <2>2, <3>1, <3>2
  <2> QED
    BY <1>8, <2>1, <2>2 DEF Crash
<1>9. CASE WriteBack
  BY <1>1, <1>2, <1>9 DEF WriteBack
<1>10. CASE PowerLoss
  <2>1. PICK n \in durable..Len(log) : log' = SubSeq(log, 1, n)
    BY <1>10 DEF PowerLoss
  <2>2. n \in Nat /\ n <= Len(log) /\ Len(log) \in Nat /\ log \in Seq(Lines) /\ log' \in Seq(Lines)
    BY <1>10, <2>1, TypesStep, LenProperties DEF Types, Next
  <2>3. \A i \in 1..n : log[i] \in Lines
    BY <2>2, ElementOfSeq
  <2>4. Len(log') = n /\ \A i \in 1..n : log'[i] = log[i]
    BY <2>1, <2>2, <2>3, SubSeqProperties
  <2>5. Chained(log) => Chained(log')
    BY <2>2, <2>4, TornChained
  <2>6. \A q \in Processes : pc'[q] # "write"
    BY <1>10 DEF PowerLoss
  <2> QED
    BY <1>10, <2>5, <2>6 DEF ChainInv, PowerLoss
<1>11. CASE Tamper
  BY <1>1, <1>11 DEF Tamper, Types
<1>12. CASE UNCHANGED vars
  BY <1>1, <1>2, <1>12 DEF vars
<1> QED
  BY <1>4, <1>5, <1>6, <1>7, <1>8, <1>9, <1>10, <1>11, <1>12 DEF Next

LEMMA ChainInvariant == ASSUME Alone PROVE Spec => []ChainInv
<1>1. Init => ChainInv
  BY DEF Init, ChainInv, Chained
<1>2. Types /\ ChainInv /\ [Next]_vars => ChainInv'
  BY ChainStep
<1> QED
  BY <1>1, <1>2, TypesInvariant, PTL DEF Spec

\* With one process on the output directory, the log of a store nobody tampered
\* with verifies whenever it can be read, over every crash, torn line and power
\* loss.
THEOREM StoreChainVerifies == ASSUME Alone PROVE Spec => []ChainVerifies
<1>1. Types /\ ChainInv => ChainVerifies
  <2> SUFFICES ASSUME Types, ChainInv, readable, tampers = 0 PROVE verify_chain(log)
    BY DEF ChainVerifies
  <2>1. \A i \in DOMAIN log : ReadableTo(log, i)
    BY LenProperties DEF Types, ReadableTo, readable
  <2> QED
    BY <2>1 DEF ChainInv, Chained, Linked, verify_chain
<1> QED
  BY <1>1, ChainInvariant, TypesInvariant, PTL

\* With one process on the output directory, a log that can no longer be read
\* stops its writer: a process that is about to write has read the log as it
\* still is, so none writes to, or gets past, a log that cannot be read.
THEOREM StoreStopsAtDamage == ASSUME Alone PROVE Spec => DamageStopsWriter
<1> DEFINE Stopped == ~readable /\ tampers' = 0 /\ losses' = losses =>
                        /\ log' = log
                        /\ \A p \in Processes :
                             pc'[p] = "commit" => pc[p] = "commit" /\ op'[p] = op[p]
<1>1. Types /\ ChainInv /\ [Next]_vars => [Stopped]_vars
  <2> SUFFICES ASSUME Types, ChainInv, [Next]_vars, ~readable, tampers' = 0, losses' = losses
               PROVE  /\ log' = log
                      /\ \A p \in Processes :
                           pc'[p] = "commit" => pc[p] = "commit" /\ op'[p] = op[p]
    OBVIOUS
  <2> USE DEF Types
  <2>1. CASE \E p \in Processes : Begin(p)
    BY <2>1 DEF Begin
  <2>2. CASE \E p \in Processes : ReadLastHash(p)
    BY <2>2, DoneTypes DEF ReadLastHash
  <2>3. CASE \E p \in Processes : Write(p) \/ (Crash(p) /\ pc[p] = "write")
    <3>1. tampers = 0
      BY <2>3 DEF Write, Crash
    <3> QED
      BY <2>3, <3>1 DEF Write, ChainInv
  <2>4. CASE \E p \in Processes : Commit(p) \/ (Crash(p) /\ pc[p] # "write")
    <3>1. PICK p \in Processes : done(p) /\ log' = log
      BY <2>4 DEF Commit, Crash
    <3> QED
      BY <3>1, DoneTypes
  <2>5. CASE WriteBack
    BY <2>5 DEF WriteBack
  <2>6. CASE PowerLoss
    BY <2>6 DEF PowerLoss
  <2>7. CASE Tamper
    BY <2>7 DEF Tamper
  <2>8. CASE UNCHANGED vars
    BY <2>8 DEF vars
  <2> QED
    BY <2>1, <2>2, <2>3, <2>4, <2>5, <2>6, <2>7, <2>8 DEF Next
<1> QED
  BY <1>1, ChainInvariant, TypesInvariant, PTL DEF Spec, DamageStopsWriter

----------------------------------------------------------------------------
(* Tampering.  The mark one change by hand leaves is a line whose link is    *)
(* broken, or a line torn before it; it is among the lines already on the    *)
(* disk, so no power loss takes it away, and what is appended later only     *)
(* comes after it or tears it.  That a line taken out leaves a mark needs    *)
(* that only the last line of an untouched log can be torn.                  *)

Marked(lines, i) == is_torn(lines[i]) \/ ~Linked(lines, i)

EvidenceInv ==
  /\ tampers = 0 => \A i \in 1..(Len(log) - 1) : ~is_torn(log[i])
  /\ tampers = 1 => \E i \in 1..durable : Marked(log, i)

\* What a step that is no tampering does to the log and its durable part.
LEMMA LogChanges ==
  ASSUME Types, [Next]_vars, tampers' = tampers
  PROVE  \/ log' = log /\ durable' >= durable
         \/ \E l \in Lines, p \in Processes :
              pc[p] = "write" /\ log' = with_line(l) /\ durable' = durable
         \/ \E n \in durable..Len(log) : log' = SubSeq(log, 1, n) /\ durable' = n
<1>1. durable \in Nat
  BY LenProperties DEF Types
<1>2. ASSUME NEW p \in Processes, Begin(p) \/ ReadLastHash(p) \/ Commit(p)
      PROVE  UNCHANGED <<log, durable>>
  BY <1>2 DEF Begin, ReadLastHash, Commit
<1>3. ASSUME NEW p \in Processes, Write(p)
      PROVE  \E l \in Lines : pc[p] = "write" /\ log' = with_line(l) /\ durable' = durable
  BY <1>3, WrittenIsLine DEF Types, Write, Lines
<1>4. ASSUME NEW p \in Processes, Crash(p)
      PROVE  /\ durable' = durable
             /\ log' = log \/ \E l \in Lines : pc[p] = "write" /\ log' = with_line(l)
  BY <1>4, WrittenIsLine DEF Types, Crash, Lines
<1>5. CASE WriteBack
  BY <1>1, <1>5, LenProperties DEF Types, WriteBack
<1>6. CASE PowerLoss
  BY <1>6 DEF PowerLoss
<1>7. CASE Tamper
  BY <1>7 DEF Tamper, Types
<1>8. CASE UNCHANGED vars
  BY <1>1, <1>8 DEF vars
<1> QED
  BY <1>1, <1>2, <1>3, <1>4, <1>5, <1>6, <1>7, <1>8 DEF Next

\* A mark below the durable part stays through every later step.
LEMMA MarkStays ==
  ASSUME Types, [Next]_vars, tampers' = tampers, \E i \in 1..durable : Marked(log, i)
  PROVE  \E i \in 1..durable' : Marked(log', i)
<1>1. PICK i \in 1..durable : Marked(log, i)
  OBVIOUS
<1>2. /\ log \in Seq(Lines) /\ Len(log) \in Nat /\ durable \in Nat /\ durable <= Len(log)
      /\ i \in Nat /\ 1 <= i /\ i <= durable
  BY <1>1, LenProperties DEF Types
<1>3. durable' \in Nat
  BY TypesStep, LenProperties DEF Types
<1>4. ASSUME log'[i] = log[i], i # 1 => log'[i - 1] = log[i - 1] PROVE Marked(log', i)
  BY <1>1, <1>4 DEF Marked, Linked
<1>5. CASE log' = log /\ durable' >= durable
  BY <1>2, <1>3, <1>4, <1>5
<1>6. ASSUME NEW l \in Lines, log' = with_line(l), durable' = durable
      PROVE  Marked(log', i)
  <2>1. CASE log' = Append(log, l)
    <3>1. \A j \in 1..Len(log) : log'[j] = log[j]
      BY <1>2, <2>1, AppendProperties
    <3> QED
      BY <1>2, <1>4, <3>1
  <2>2. CASE /\ \A j \in 1..(Len(log) - 1) : log'[j] = log[j]
             /\ is_torn(log'[Len(log)])
    <3>1. CASE i = Len(log)
      BY <2>2, <3>1 DEF Marked
    <3>2. CASE i < Len(log)
      BY <1>2, <1>4, <2>2, <3>2
    <3> QED
      BY <1>2, <3>1, <3>2
  <2> QED
    BY <1>2, <1>6, <2>1, <2>2, WithLine
<1>7. ASSUME NEW n \in durable..Len(log), log' = SubSeq(log, 1, n), durable' = n
      PROVE  Marked(log', i)
  <2>1. n \in Nat /\ n <= Len(log) /\ i <= n
    BY <1>2
  <2>2. \A j \in 1..n : log[j] \in Lines
    BY <1>2, <2>1, ElementOfSeq
  <2>3. \A j \in 1..n : log'[j] = log[j]
    BY <1>7, <2>1, <2>2, SubSeqProperties
  <2> QED
    BY <1>2, <1>4, <2>1, <2>3
<1> QED
  BY <1>2, <1>3, <1>5, <1>6, <1>7, LogChanges

\* The one change by hand leaves a mark in the log of a lone process.
LEMMA TamperMarks ==
  ASSUME Types, ChainInv, EvidenceInv, tampers = 0, Tamper
  PROVE  \E i \in 1..Len(log') : Marked(log', i)
<1>1. /\ log \in Seq(Lines) /\ Len(log) \in Nat /\ DOMAIN log = 1..Len(log)
      /\ Chained(log) /\ \A i \in 1..(Len(log) - 1) : ~is_torn(log[i])
  BY LenProperties DEF Types, ChainInv, EvidenceInv
<1>2. log' \in Seq(Lines) /\ Len(log') \in Nat
  BY TypesStep, LenProperties DEF Types, Next
<1>3. PICK i \in 1..Len(log) :
        \/ \E o \in Ops : /\ ~is_torn(log[i]) /\ payload(o) # log[i].payload
                          /\ log' = [log EXCEPT ![i].payload = payload(o)]
        \/ i < Len(log) /\ log' = RemoveAt(log, i)
  BY <1>1 DEF Tamper
<1>4. ASSUME NEW j \in 1..Len(log), j < Len(log) \/ ~is_torn(log[j]) PROVE Linked(log, j)
  <2>1. \A k \in 1..j : k \in 1..(Len(log) - 1) \/ k = j
    BY <1>1
  <2>2. ReadableTo(log, j)
    BY <1>1, <1>4, <2>1 DEF ReadableTo
  <2> QED
    BY <1>1, <2>2 DEF Chained
<1>5. ASSUME NEW o \in Ops, ~is_torn(log[i]), payload(o) # log[i].payload,
             log' = [log EXCEPT ![i].payload = payload(o)]
      PROVE  i \in 1..Len(log') /\ Marked(log', i)
  <2> DEFINE before == IF i = 1 THEN GENESIS ELSE log[i - 1].hash
  <2>1. log[i].hash = Append(before, log[i].payload)
    BY <1>4, <1>5 DEF Linked
  <2>2. log[i] \in Good /\ payload(o) \in Payloads
    BY <1>1, <1>5, TornOrGood, ElementOfSeq DEF Payloads
  <2>3. before \in Hashes
    <3>1. CASE i = 1
      BY <3>1 DEF GENESIS, Hashes
    <3>2. CASE i # 1
      <4>1. i - 1 \in 1..Len(log) /\ i - 1 \in 1..(Len(log) - 1)
        BY <1>1, <3>2
      <4>2. log[i - 1] \in Good
        BY <1>1, <4>1, TornOrGood, ElementOfSeq
      <4> QED
        BY <3>2, <4>2 DEF Good
    <3> QED
      BY <3>1, <3>2
  <2>4. Append(before, payload(o)) # Append(before, log[i].payload)
    BY <1>5, <2>2, <2>3, AppendProperties DEF Good, Hashes
  <2>5. /\ Len(log') = Len(log)
        /\ log'[i].hash = log[i].hash /\ log'[i].payload = payload(o)
        /\ i # 1 => log'[i - 1] = log[i - 1]
    BY <1>1, <1>2, <1>5, <2>2, LenProperties DEF Good
  <2>6. (IF i = 1 THEN GENESIS ELSE log'[i - 1].hash) = before
    BY <2>5
  <2> HIDE DEF before
  <2>7. ~Linked(log', i)
    BY <2>1, <2>4, <2>5, <2>6 DEF Linked
  <2> QED
    BY <2>5, <2>7 DEF Marked
<1>6. ASSUME i < Len(log), log' = RemoveAt(log, i)
      PROVE  i \in 1..Len(log') /\ Marked(log', i)
  <2> DEFINE before == IF i = 1 THEN GENESIS ELSE log[i - 1].hash
  <2>1. /\ Len(log') = Len(log) - 1
        /\ log'[i] = log[i + 1]
        /\ i # 1 => log'[i - 1] = log[i - 1]
    <3> DEFINE head == SubSeq(log, 1, i - 1)
               tail == SubSeq(log, i + 1, Len(log))
    <3>1. /\ \A j \in 1..(i - 1) : log[j] \in Lines
          /\ \A j \in (i + 1)..Len(log) : log[j] \in Lines
      BY <1>1, ElementOfSeq
    <3>2. head \in Seq(Lines) /\ Len(head) = i - 1 /\ \A j \in 1..(i - 1) : head[j] = log[j]
      BY <1>1, <3>1, SubSeqProperties
    <3>3. /\ tail \in Seq(Lines) /\ Len(tail) = Len(log) - i
          /\ \A j \in 1..(Len(log) - i) : tail[j] = log[(i + 1) + j - 1]
      <4>1. /\ i + 1 \in Int /\ Len(log) \in Int /\ i + 1 <= Len(log)
            /\ Len(log) - (i + 1) + 1 = Len(log) - i
        BY <1>1, <1>6
      <4> QED
        BY <3>1, <4>1, SubSeqProperties
    <3>4. log' = head \o tail
      BY <1>6 DEF RemoveAt
    <3> HIDE DEF head, tail
    <3>5. /\ Len(log') = Len(head) + Len(tail)
          /\ \A j \in 1..(Len(head) + Len(tail)) :
               log'[j] = IF j <= Len(head) THEN head[j] ELSE tail[j - Len(head)]
      <4>1. head \in Seq(Lines) /\ tail \in Seq(Lines)
        BY <3>2, <3>3
      <4> QED
        BY <3>4, <4>1, ConcatProperties
    <3>6. log'[i] = tail[1]
      BY <1>1, <1>6, <3>2, <3>3, <3>5
    <3>7. tail[1] = log[i + 1]
      BY <1>1, <1>6, <3>3
    <3>8. i # 1 => log'[i - 1] = head[i - 1] /\ head[i - 1] = log[i - 1]
      BY <1>1, <1>6, <3>2, <3>3, <3>5
    <3> QED
      BY <1>1, <3>2, <3>3, <3>5, <3>6, <3>7, <3>8
  <2>2. i \in 1..Len(log')
    BY <1>1, <1>6, <2>1
  <2>3. CASE is_torn(log[i + 1])
    BY <2>1, <2>2, <2>3 DEF Marked
  <2>4. CASE ~is_torn(log[i + 1])
    <3>1. i + 1 \in 1..Len(log) /\ i \in 1..(Len(log) - 1) /\ i + 1 # 1 /\ (i + 1) - 1 = i
      BY <1>1, <1>6
    <3>2. Linked(log, i) /\ Linked(log, i + 1)
      BY <1>1, <1>4, <1>6, <2>4, <3>1
    <3>3. log[i + 1].prev = log[i].hash
      BY <3>1, <3>2 DEF Linked
    <3>4. log[i].hash = Append(before, log[i].payload)
      BY <3>2 DEF Linked
    <3>5. log[i] \in Good
      BY <1>1, <3>1, TornOrGood, ElementOfSeq
    <3>6. before \in Hashes
      <4>1. CASE i = 1
        BY <4>1 DEF GENESIS, Hashes
      <4>2. CASE i # 1
        <5>1. i - 1 \in 1..Len(log) /\ i - 1 \in 1..(Len(log) - 1)
          BY <1>1, <4>2
        <5>2. log[i - 1] \in Good
          BY <1>1, <5>1, TornOrGood, ElementOfSeq
        <5> QED
          BY <4>2, <5>2 DEF Good
      <4> QED
        BY <4>1, <4>2
    <3>7. (IF i = 1 THEN GENESIS ELSE log'[i - 1].hash) = before
      BY <2>1
    <3> HIDE DEF before
    <3>8. Append(before, log[i].payload) # before
      <4>1. Len(Append(before, log[i].payload)) = Len(before) + 1 /\ Len(before) \in Nat
        BY <3>5, <3>6, AppendProperties, LenProperties DEF Good, Hashes
      <4> QED
        BY <4>1
    <3>9. ~Linked(log', i)
      BY <2>1, <3>3, <3>4, <3>7, <3>8 DEF Linked
    <3> QED
      BY <2>2, <3>9 DEF Marked
  <2> QED
    BY <2>3, <2>4
<1> QED
  BY <1>3, <1>5, <1>6

LEMMA EvidenceStep ==
  ASSUME Types, ChainInv, EvidenceInv, [Next]_vars PROVE EvidenceInv'
<1>1. /\ log \in Seq(Lines) /\ Len(log) \in Nat /\ tampers \in Nat /\ durable \in Nat
  BY LenProperties DEF Types
<1>2. CASE Tamper
  <2>1. tampers' = tampers + 1 /\ durable' = Len(log')
    BY <1>2 DEF Tamper
  <2>2. CASE tampers = 0
    <3>1. \E i \in 1..Len(log') : Marked(log', i)
      BY <1>2, <2>2, TamperMarks
    <3> QED
      BY <2>1, <2>2, <3>1 DEF EvidenceInv, Marked, Linked
  <2>3. CASE tampers # 0
    BY <1>1, <2>1, <2>3 DEF EvidenceInv
  <2> QED
    BY <2>2, <2>3
<1>3. CASE tampers' = tampers
  <2>1. ASSUME tampers = 0, NEW i \in 1..(Len(log') - 1) PROVE ~is_torn(log'[i])
    <3>1. \A j \in 1..(Len(log) - 1) : ~is_torn(log[j])
      BY <2>1 DEF EvidenceInv
    <3>2. CASE log' = log
      BY <3>1, <3>2, <2>1
    <3>3. ASSUME NEW l \in Lines, NEW p \in Processes, pc[p] = "write", log' = with_line(l)
          PROVE  ~is_torn(log'[i])
      <4>1. \A j \in 1..Len(log) : ~is_torn(log[j])
        BY <1>1, <2>1, <3>3, LenProperties DEF ChainInv, readable
      <4>2. CASE log' = Append(log, l)
        <5>1. Len(log') = Len(log) + 1 /\ \A j \in 1..Len(log) : log'[j] = log[j]
          BY <1>1, <4>2, AppendProperties
        <5> QED
          BY <1>1, <2>1, <4>1, <5>1
      <4>3. CASE Len(log') = Len(log) /\ \A j \in 1..(Len(log) - 1) : log'[j] = log[j]
        BY <1>1, <2>1, <3>1, <4>3
      <4> QED
        BY <1>1, <3>3, <4>2, <4>3, WithLine
    <3>4. ASSUME NEW n \in durable..Len(log), log' = SubSeq(log, 1, n)
          PROVE  ~is_torn(log'[i])
      <4>1. n \in Nat /\ n <= Len(log)
        BY <1>1
      <4>2. \A j \in 1..n : log[j] \in Lines
        BY <1>1, <4>1, ElementOfSeq
      <4>3. Len(log') = n /\ \A j \in 1..n : log'[j] = log[j]
        BY <3>4, <4>1, <4>2, SubSeqProperties
      <4> QED
        BY <1>1, <2>1, <3>1, <4>1, <4>3
    <3> QED
      BY <1>3, <3>2, <3>3, <3>4, LogChanges
  <2>2. tampers = 1 => \E i \in 1..durable' : Marked(log', i)
    BY <1>3, MarkStays DEF EvidenceInv
  <2> QED
    BY <1>3, <2>1, <2>2 DEF EvidenceInv, Marked, Linked
<1>4. Tamper \/ tampers' = tampers
  BY DEF Next, Begin, ReadLastHash, Write, Commit, Crash, WriteBack, PowerLoss, vars
<1> QED
  BY <1>2, <1>3, <1>4

\* With one process on the output directory, a log that was edited or cut
\* inside once never verifies again, whatever is appended, torn or lost later.
THEOREM StoreShowsTampering == ASSUME Alone PROVE Spec => []TamperEvident
<1>1. Init => ChainInv /\ EvidenceInv
  BY DEF Init, ChainInv, Chained, EvidenceInv
<1>2. Types /\ ChainInv /\ EvidenceInv /\ [Next]_vars => ChainInv' /\ EvidenceInv'
  BY ChainStep, EvidenceStep
<1>3. Types /\ EvidenceInv => TamperEvident
  <2> SUFFICES ASSUME Types, EvidenceInv, readable, tampers = 1 PROVE ~verify_chain(log)
    BY DEF TamperEvident
  <2>1. PICK i \in 1..durable : Marked(log, i)
    BY DEF EvidenceInv
  <2>2. i \in DOMAIN log
    BY <2>1, LenProperties DEF Types
  <2>3. ~Linked(log, i)
    BY <2>1, <2>2 DEF Marked, readable
  <2> QED
    BY <2>2, <2>3 DEF Linked, verify_chain
<1> QED
  BY <1>1, <1>2, <1>3, TypesInvariant, PTL DEF Spec

----------------------------------------------------------------------------
(* The extra column: what a process merged is still a merge into what the   *)
(* column holds when it commits.                                           *)

ExtraInv ==
  /\ extra = updates
  /\ \A p \in Processes : pc[p] # "idle" /\ op[p].kind = "extra" => merged[p] = merge(op[p])

\* With one process on the output directory, an update of one key of extra
\* touches nothing else, over every crash.
THEOREM StoreMergesExtra == ASSUME Alone PROVE Spec => []ExtraMerged
<1>1. Init => ExtraInv
  BY DEF Init, ExtraInv
<1>2. Types /\ ExtraInv /\ [Next]_vars => ExtraInv'
  <2> SUFFICES ASSUME Types, ExtraInv, [Next]_vars PROVE ExtraInv'
    OBVIOUS
  <2>1. ASSUME UNCHANGED <<extra, updates>>,
               \A q \in Processes : pc'[q] # "idle" => /\ pc[q] # "idle"
                                                       /\ op'[q] = op[q] /\ merged'[q] = merged[q]
        PROVE  ExtraInv'
    BY <2>1 DEF ExtraInv, merge
  <2>2. ASSUME NEW p \in Processes, Begin(p) PROVE ExtraInv'
    <3>1. PICK o \in Ops :
            /\ op' = [op EXCEPT ![p] = o]
            /\ merged' = [merged EXCEPT ![p] = IF o.kind = "extra" THEN merge(o) ELSE None]
      BY <2>2 DEF Begin
    <3>2. op'[p] = o /\ (o.kind = "extra" => merged'[p] = merge(o)) /\ UNCHANGED <<extra, updates>>
      BY <2>2, <3>1 DEF Types, Begin
    <3>3. \A q \in Processes : q = p
      BY DEF Alone
    <3> QED
      BY <3>2, <3>3 DEF ExtraInv, merge
  <2>3. ASSUME NEW p \in Processes, ReadLastHash(p) PROVE ExtraInv'
    <3>1. CASE readable
      BY <2>1, <2>3, <3>1 DEF ReadLastHash, Types
    <3>2. CASE ~readable
      BY <2>1, <2>3, <3>2, DoneTypes DEF ReadLastHash
    <3> QED
      BY <3>1, <3>2
  <2>4. ASSUME NEW p \in Processes, Write(p) PROVE ExtraInv'
    BY <2>1, <2>4 DEF Write, Types
  <2>5. ASSUME NEW p \in Processes, Commit(p) PROVE ExtraInv'
    <3>1. pc[p] = "commit" /\ op[p] \in Ops /\ \A q \in Processes : pc'[q] = "idle"
      BY <2>5, DoneTypes DEF Commit, Types, Alone
    <3>2. extra' = updates'
      <4>1. CASE op[p].kind = "insert"
        BY <2>5, <4>1 DEF Commit, ExtraInv
      <4>2. CASE op[p].kind # "insert"
        <5>1. op[p].kind = "extra" /\ merged[p] = merge(op[p])
          BY <3>1, <4>2 DEF Ops, ExtraInv
        <5> QED
          BY <2>5, <4>2, <5>1 DEF Commit, ExtraInv, merge
      <4> QED
        BY <4>1, <4>2
    <3> QED
      BY <3>1, <3>2 DEF ExtraInv
  <2>6. ASSUME NEW p \in Processes, Crash(p) PROVE ExtraInv'
    BY <2>1, <2>6, DoneTypes DEF Crash
  <2>7. CASE PowerLoss
    BY <2>1, <2>7 DEF PowerLoss
  <2>8. CASE WriteBack \/ Tamper
    BY <2>1, <2>8 DEF WriteBack, Tamper
  <2>9. CASE UNCHANGED vars
    BY <2>1, <2>9 DEF vars
  <2> QED
    BY <2>2, <2>3, <2>4, <2>5, <2>6, <2>7, <2>8, <2>9 DEF Next
<1>3. ExtraInv => ExtraMerged
  BY DEF ExtraInv, ExtraMerged
<1> QED
  BY <1>1, <1>2, <1>3, TypesInvariant, PTL DEF Spec

----------------------------------------------------------------------------
(* Rows and lines.  A row in the database, one about to be committed and    *)
(* the last line while it lacks its newline are each accounted for by a     *)
(* line of their own: the line of a process that died with it has no row,   *)
(* so the next write may ruin it.                                           *)

of(r) == [kind |-> "insert", row |-> r]

Rows(r)    == {i \in DOMAIN inserted : inserted[i] = of(r)}
Logged(r)  == {i \in DOMAIN log : log[i].payload = of(r)}
Pending(r) == {p \in Processes : pc[p] = "commit" /\ payload(op[p]) = of(r)}
dangling(r) == IF log # <<>> /\ ~Last(log).eol /\ Last(log).payload = of(r) THEN 1 ELSE 0

CountInv ==
  losses = 0 /\ tampers = 0 /\ readable =>
    \A r \in Inserts :
      Cardinality(Rows(r)) + Cardinality(Pending(r)) + dangling(r) <= Cardinality(Logged(r))

\* Indices of a sequence are few, and the next one is new.
LEMMA IndexSets ==
  ASSUME NEW n \in Nat, NEW A, A \subseteq 1..n
  PROVE  /\ IsFiniteSet(A) /\ Cardinality(A) \in Nat
         /\ Cardinality(A \cup {n + 1}) = Cardinality(A) + 1
<1>1. IsFiniteSet(1..n)
  BY FS_Interval
<1>2. IsFiniteSet(A) /\ Cardinality(A) \in Nat
  BY <1>1, FS_Subset, FS_CardinalityType
<1>3. n + 1 \notin A
  OBVIOUS
<1> QED
  BY <1>2, <1>3, FS_AddElement

\* All the counts are numbers.
LEMMA CountsAreNat ==
  ASSUME IsFiniteSet(Processes), Types, NEW r
  PROVE  /\ Cardinality(Rows(r)) \in Nat /\ Cardinality(Logged(r)) \in Nat
         /\ IsFiniteSet(Pending(r)) /\ Cardinality(Pending(r)) \in Nat
         /\ dangling(r) \in {0, 1}
<1>1. Len(log) \in Nat /\ Len(inserted) \in Nat
      /\ Rows(r) \subseteq 1..Len(inserted) /\ Logged(r) \subseteq 1..Len(log)
  BY LenProperties DEF Types, Rows, Logged
<1>2. Pending(r) \subseteq Processes
  BY DEF Pending
<1> QED
  BY <1>1, <1>2, IndexSets, FS_Subset, FS_CardinalityType DEF dangling

\* A line appended counts for its own row.
LEMMA AppendedCounts ==
  ASSUME Types, NEW l \in Lines, log' = Append(log, l), NEW r
  PROVE  /\ Cardinality(Logged(r)') =
              Cardinality(Logged(r)) + (IF l.payload = of(r) THEN 1 ELSE 0)
         /\ Len(log') \in DOMAIN log' /\ log' # <<>> /\ Last(log') = l
<1> DEFINE n == Len(log)
<1>1. /\ n \in Nat /\ DOMAIN log = 1..n /\ DOMAIN log' = 1..(n + 1) /\ Len(log') = n + 1
      /\ \A i \in 1..n : log'[i] = log[i]
      /\ log'[n + 1] = l /\ log' # <<>>
  BY AppendProperties, LenProperties DEF Types
<1> HIDE DEF n
<1>2. Logged(r) \subseteq 1..n
  BY <1>1 DEF Logged
<1>3. CASE l.payload = of(r)
  <2>1. Logged(r)' = Logged(r) \cup {n + 1}
    BY <1>1, <1>3 DEF Logged, of
  <2>2. Cardinality(Logged(r) \cup {n + 1}) = Cardinality(Logged(r)) + 1
    BY <1>1, <1>2, IndexSets
  <2> QED
    BY <1>1, <1>3, <2>1, <2>2 DEF Last
<1>4. CASE l.payload # of(r)
  <2>1. Logged(r)' = Logged(r)
    BY <1>1, <1>4 DEF Logged, of
  <2>2. Cardinality(Logged(r)) \in Nat
    BY <1>1, <1>2, IndexSets
  <2> QED
    BY <1>1, <1>4, <2>1, <2>2 DEF Last
<1> QED
  BY <1>3, <1>4

\* A line ruined in place takes away at most the last line, which counted as
\* dangling; and the log can no longer be read.
LEMMA RuinedCounts ==
  ASSUME Types, log' \in Seq(Lines), log # <<>>, ~Last(log).eol, Len(log') = Len(log),
         \A i \in 1..(Len(log) - 1) : log'[i] = log[i],
         is_torn(log'[Len(log)]), NEW r \in Inserts
  PROVE  /\ Cardinality(Logged(r)') = Cardinality(Logged(r)) - dangling(r)
         /\ ~readable'
<1> DEFINE n == Len(log)
<1>1. /\ n \in Nat \ {0} /\ DOMAIN log = 1..n /\ DOMAIN log' = 1..n /\ n = Len(log)
      /\ \A i \in 1..(n - 1) : log'[i] = log[i]
      /\ is_torn(log'[n])
  BY EmptySeq, LenProperties DEF Types
<1> HIDE DEF n
<1>2. of(r) # None
  <2>1. of(r) \in Ops /\ payload(of(r)) = of(r)
    BY DEF of, Ops, payload
  <2> QED
    BY <2>1, NoneAssumption
<1>3. log'[n].payload # of(r)
  BY <1>1, <1>2 DEF is_torn
<1>4. Logged(r)' = Logged(r) \ {n}
  <2>1. ASSUME NEW i \in 1..n, i # n PROVE log'[i] = log[i]
    <3>1. n \in Nat /\ n # 0
      BY <1>1
    <3>2. i \in 1..(n - 1)
      BY <2>1, <3>1
    <3> QED
      BY <1>1, <3>2
  <2> QED
    BY <1>1, <1>3, <2>1 DEF Logged, of
<1>5. dangling(r) = IF n \in Logged(r) THEN 1 ELSE 0
  BY <1>1 DEF dangling, Logged, Last
<1>6. IsFiniteSet(Logged(r)) /\ Cardinality(Logged(r)) \in Nat
  BY <1>1, IndexSets DEF Logged
<1>7. Cardinality(Logged(r) \ {n}) =
        IF n \in Logged(r) THEN Cardinality(Logged(r)) - 1 ELSE Cardinality(Logged(r))
  BY <1>6, FS_RemoveElement
<1>8. ~readable'
  BY <1>1 DEF readable
<1> QED
  BY <1>4, <1>5, <1>6, <1>7, <1>8

\* Who ends its mutation is pending no more.
LEMMA DoneCounts ==
  ASSUME IsFiniteSet(Processes), Types, NEW p \in Processes, done(p), NEW r
  PROVE  /\ Pending(r)' = Pending(r) \ {p}
         /\ Cardinality(Pending(r)') =
              IF p \in Pending(r) THEN Cardinality(Pending(r)) - 1 ELSE Cardinality(Pending(r))
<1>1. Pending(r)' = Pending(r) \ {p}
  BY DoneTypes DEF Pending, of
<1> QED
  BY <1>1, CountsAreNat, FS_RemoveElement

\* A write makes its row pending and logs it, or leaves a log nobody reads.
LEMMA WriteCounts ==
  ASSUME IsFiniteSet(Processes), Types, NEW p \in Processes, Write(p), NEW r \in Inserts
  PROVE  \E k \in {0, 1} :
           /\ Cardinality(Rows(r)') = Cardinality(Rows(r))
           /\ Cardinality(Pending(r)') = Cardinality(Pending(r)) + k
           /\ \/ /\ Cardinality(Logged(r)') = Cardinality(Logged(r)) + k
                 /\ dangling(r)' = 0 /\ (readable' => readable)
              \/ /\ Cardinality(Logged(r)') = Cardinality(Logged(r)) - dangling(r)
                 /\ ~readable'
<1> DEFINE l == line(prev[p], payload(op[p]), TRUE)
           k == IF payload(op[p]) = of(r) THEN 1 ELSE 0
<1>1. /\ pc[p] = "write" /\ op[p] \in Ops /\ prev[p] \in Hashes
      /\ log' = with_line(l) /\ pc' = [pc EXCEPT ![p] = "commit"] /\ op' = op
      /\ inserted' = inserted
  BY DEF Write, Types
<1>2. l \in Lines /\ l.payload = payload(op[p]) /\ l.eol = TRUE
  BY <1>1, WrittenIsLine DEF Lines, line
<1> HIDE DEF l
<1>3. Cardinality(Rows(r)') = Cardinality(Rows(r))
  BY <1>1 DEF Rows, of
<1>4. Cardinality(Pending(r)') = Cardinality(Pending(r)) + k
  <2>1. \A q \in Processes : pc'[q] = IF q = p THEN "commit" ELSE pc[q]
    BY <1>1 DEF Types
  <2>2. CASE payload(op[p]) = of(r)
    <3>1. Pending(r)' = Pending(r) \cup {p} /\ p \notin Pending(r)
      BY <1>1, <2>1, <2>2 DEF Pending, of
    <3> QED
      BY <2>2, <3>1, CountsAreNat, FS_AddElement
  <2>3. CASE payload(op[p]) # of(r)
    <3>1. Pending(r)' = Pending(r)
      BY <1>1, <2>1, <2>3 DEF Pending, of
    <3> QED
      BY <2>3, <3>1, CountsAreNat
  <2> QED
    BY <2>2, <2>3
<1>5. CASE log' = Append(log, l)
  <2>1. Cardinality(Logged(r)') = Cardinality(Logged(r)) + k /\ Last(log') = l
    BY <1>2, <1>5, AppendedCounts
  <2>2. dangling(r)' = 0
    BY <1>2, <2>1 DEF dangling
  <2>3. /\ DOMAIN log \subseteq DOMAIN log' /\ \A i \in DOMAIN log : log'[i] = log[i]
    BY <1>2, <1>5, AppendProperties, LenProperties DEF Types
  <2>4. readable' => readable
    BY <2>3 DEF readable
  <2> QED
    BY <1>3, <1>4, <2>1, <2>2, <2>4
<1>6. CASE /\ log # <<>> /\ ~Last(log).eol
           /\ Len(log') = Len(log)
           /\ \A i \in 1..(Len(log) - 1) : log'[i] = log[i]
           /\ is_torn(log'[Len(log)])
  <2>1. log' \in Seq(Lines)
    BY <1>1, <1>2, WithLine DEF Types
  <2> QED
    BY <1>3, <1>4, <1>6, <2>1, RuinedCounts
<1> QED
  BY <1>1, <1>2, <1>5, <1>6, WithLine DEF Types

\* A crash forgets what was pending, and may leave a line without a newline,
\* or a log nobody reads.
LEMMA CrashCounts ==
  ASSUME IsFiniteSet(Processes), Types, NEW p \in Processes, Crash(p), NEW r \in Inserts
  PROVE  /\ Cardinality(Rows(r)') = Cardinality(Rows(r))
         /\ Cardinality(Pending(r)') <= Cardinality(Pending(r))
         /\ \/ log' = log /\ Logged(r)' = Logged(r) /\ dangling(r)' = dangling(r)
            \/ /\ pc[p] = "write"
               /\ Cardinality(Logged(r)') = Cardinality(Logged(r)) + dangling(r)'
               /\ (readable' => readable)
            \/ /\ pc[p] = "write"
               /\ Cardinality(Logged(r)') = Cardinality(Logged(r)) - dangling(r)
               /\ ~readable'
<1>1. Rows(r)' = Rows(r) /\ done(p)
  BY DEF Crash, Rows, of
<1>2. Cardinality(Pending(r)') <= Cardinality(Pending(r))
  BY <1>1, DoneCounts, CountsAreNat
<1>3. CASE log' = log
  BY <1>1, <1>2, <1>3 DEF Logged, dangling, of
<1>4. ASSUME NEW l \in Lines, l.eol = FALSE, log' = with_line(l), pc[p] = "write"
      PROVE  \/ /\ Cardinality(Logged(r)') = Cardinality(Logged(r)) + dangling(r)'
                /\ (readable' => readable)
             \/ /\ Cardinality(Logged(r)') = Cardinality(Logged(r)) - dangling(r)
                /\ ~readable'
  <2>1. CASE log' = Append(log, l)
    <3>1. /\ Cardinality(Logged(r)') =
               Cardinality(Logged(r)) + (IF l.payload = of(r) THEN 1 ELSE 0)
          /\ log' # <<>> /\ Last(log') = l
      BY <2>1, AppendedCounts
    <3>2. dangling(r)' = IF l.payload = of(r) THEN 1 ELSE 0
      BY <1>4, <3>1 DEF dangling, of
    <3>3. /\ DOMAIN log \subseteq DOMAIN log' /\ \A i \in DOMAIN log : log'[i] = log[i]
      BY <2>1, AppendProperties, LenProperties DEF Types
    <3>4. readable' => readable
      BY <3>3 DEF readable
    <3> QED
      BY <3>1, <3>2, <3>4
  <2>2. CASE /\ log # <<>> /\ ~Last(log).eol
             /\ Len(log') = Len(log)
             /\ \A i \in 1..(Len(log) - 1) : log'[i] = log[i]
             /\ is_torn(log'[Len(log)])
    <3>1. log' \in Seq(Lines)
      BY <1>4, WithLine DEF Types
    <3> QED
      BY <2>2, <3>1, RuinedCounts
  <2> QED
    BY <1>4, <2>1, <2>2, WithLine DEF Types
<1>5. CASE /\ pc[p] = "write"
           /\ \/ log' = with_line(torn_line(FALSE))
              \/ log' = with_line(line(prev[p], payload(op[p]), FALSE))
  <2>1. /\ torn_line(FALSE) \in Lines /\ line(prev[p], payload(op[p]), FALSE) \in Lines
    BY <1>5, WrittenIsLine DEF Lines, Types
  <2>2. torn_line(FALSE).eol = FALSE /\ line(prev[p], payload(op[p]), FALSE).eol = FALSE
    BY DEF torn_line, line
  <2> QED
    BY <1>1, <1>2, <1>4, <1>5, <2>1, <2>2
<1> QED
  BY <1>3, <1>5 DEF Crash

\* A commit turns what was pending into a row.
LEMMA CommitCounts ==
  ASSUME IsFiniteSet(Processes), Types, NEW p \in Processes, Commit(p), NEW r \in Inserts
  PROVE  /\ Cardinality(Rows(r)') + Cardinality(Pending(r)') <=
              Cardinality(Rows(r)) + Cardinality(Pending(r))
         /\ log' = log /\ Logged(r)' = Logged(r) /\ dangling(r)' = dangling(r)
<1> DEFINE n == Len(inserted)
<1>1. done(p) /\ log' = log /\ pc[p] = "commit" /\ op[p] \in Ops
  BY DEF Commit, Types
<1>2. Logged(r)' = Logged(r) /\ dangling(r)' = dangling(r)
  BY <1>1 DEF Logged, dangling, of
<1>3. Cardinality(Pending(r)') =
        IF p \in Pending(r) THEN Cardinality(Pending(r)) - 1 ELSE Cardinality(Pending(r))
  BY <1>1, DoneCounts
<1>4. Cardinality(Rows(r)) \in Nat /\ Cardinality(Pending(r)) \in Nat
  BY CountsAreNat
<1>5. CASE op[p].kind # "insert"
  <2>1. Rows(r)' = Rows(r)
    BY <1>5 DEF Commit, Rows, of
  <2> QED
    BY <1>1, <1>2, <1>3, <1>4, <2>1
<1>6. CASE op[p].kind = "insert"
  <2>1. inserted' = Append(inserted, payload(op[p])) /\ payload(op[p]) \in Payloads
    BY <1>1, <1>6 DEF Commit, Payloads
  <2>2. /\ n \in Nat /\ DOMAIN inserted = 1..n /\ DOMAIN inserted' = 1..(n + 1)
        /\ \A i \in 1..n : inserted'[i] = inserted[i]
        /\ inserted'[n + 1] = payload(op[p])
    BY <2>1, AppendProperties, LenProperties DEF Types
  <2> HIDE DEF n
  <2>3. CASE payload(op[p]) = of(r)
    <3>1. Rows(r)' = Rows(r) \cup {n + 1} /\ Rows(r) \subseteq 1..n
      BY <2>2, <2>3 DEF Rows, of
    <3>2. Cardinality(Rows(r) \cup {n + 1}) = Cardinality(Rows(r)) + 1
      BY <2>2, <3>1, IndexSets
    <3>3. p \in Pending(r)
      BY <1>1, <2>3 DEF Pending
    <3> QED
      BY <1>1, <1>2, <1>3, <1>4, <3>1, <3>2, <3>3
  <2>4. CASE payload(op[p]) # of(r)
    <3>1. Rows(r)' = Rows(r)
      BY <2>2, <2>4 DEF Rows, of
    <3> QED
      BY <1>1, <1>2, <1>3, <1>4, <3>1
  <2> QED
    BY <2>3, <2>4
<1> QED
  BY <1>5, <1>6

\* The steps that write nothing and commit nothing leave the counts alone.
LEMMA QuietCounts ==
  ASSUME IsFiniteSet(Processes), Types, UNCHANGED <<log, inserted>>, NEW r,
         \A q \in Processes : pc'[q] = "commit" => pc[q] = "commit" /\ op'[q] = op[q]
  PROVE  /\ Rows(r)' = Rows(r) /\ Logged(r)' = Logged(r) /\ dangling(r)' = dangling(r)
         /\ Cardinality(Pending(r)') <= Cardinality(Pending(r))
<1>1. Rows(r)' = Rows(r) /\ Logged(r)' = Logged(r) /\ dangling(r)' = dangling(r)
  BY DEF Rows, Logged, dangling, of
<1>2. Pending(r)' \subseteq Pending(r)
  BY DEF Pending, of
<1> QED
  BY <1>1, <1>2, CountsAreNat, FS_Subset

\* The step of the counts, whichever action takes it.
LEMMA CountsStep ==
  ASSUME IsFiniteSet(Processes), Types, [Next]_vars, losses' = 0, tampers' = 0
  PROVE  /\ losses = 0 /\ tampers = 0
         /\ \/ /\ readable' <=> readable
               /\ \A r \in Inserts :
                    /\ Cardinality(Rows(r)') + Cardinality(Pending(r)') <=
                         Cardinality(Rows(r)) + Cardinality(Pending(r))
                    /\ Logged(r)' = Logged(r) /\ dangling(r)' = dangling(r)
               /\ \A q \in Processes : pc'[q] = "write" => pc[q] = "write" \/ readable
            \/ \E p \in Processes : (Write(p) \/ Crash(p)) /\ pc[p] = "write" /\ pc'[p] # "write"
<1>1. ASSUME UNCHANGED <<log, inserted, losses, tampers>>,
             \A q \in Processes : pc'[q] = "commit" => pc[q] = "commit" /\ op'[q] = op[q],
             \A q \in Processes : pc'[q] = "write" => pc[q] = "write" \/ readable
      PROVE  /\ losses = 0 /\ tampers = 0
             /\ readable' <=> readable
             /\ \A r \in Inserts :
                  /\ Cardinality(Rows(r)') + Cardinality(Pending(r)') <=
                       Cardinality(Rows(r)) + Cardinality(Pending(r))
                  /\ Logged(r)' = Logged(r) /\ dangling(r)' = dangling(r)
  <2>1. readable' <=> readable
    BY <1>1 DEF readable
  <2>2. ASSUME NEW r \in Inserts
        PROVE  /\ Cardinality(Rows(r)') + Cardinality(Pending(r)') <=
                    Cardinality(Rows(r)) + Cardinality(Pending(r))
               /\ Logged(r)' = Logged(r) /\ dangling(r)' = dangling(r)
    <3>1. /\ Rows(r)' = Rows(r) /\ Logged(r)' = Logged(r) /\ dangling(r)' = dangling(r)
          /\ Cardinality(Pending(r)') <= Cardinality(Pending(r))
      BY <1>1, QuietCounts
    <3>2. Cardinality(Pending(r)') \in Nat
      BY TypesStep, CountsAreNat, DoneTypes, FS_Subset, FS_CardinalityType DEF Pending
    <3> QED
      BY <3>1, <3>2, CountsAreNat
  <2> QED
    BY <1>1, <2>1, <2>2
<1>2. ASSUME NEW p \in Processes, Begin(p)
      PROVE  /\ UNCHANGED <<log, inserted, losses, tampers>>
             /\ \A q \in Processes : pc'[q] = "commit" => pc[q] = "commit" /\ op'[q] = op[q]
             /\ \A q \in Processes : pc'[q] = "write" => pc[q] = "write"
  BY <1>2 DEF Begin, Types
<1>3. CASE \E p \in Processes : Begin(p)
  <2>1. PICK p \in Processes : Begin(p)
    BY <1>3
  <2> QED
    BY <1>1, <1>2, <2>1
<1>4. ASSUME NEW p \in Processes, ReadLastHash(p)
      PROVE  /\ UNCHANGED <<log, inserted, losses, tampers>>
             /\ \A q \in Processes : pc'[q] = "commit" => pc[q] = "commit" /\ op'[q] = op[q]
             /\ \A q \in Processes : pc'[q] = "write" => pc[q] = "write" \/ readable
  <2>1. CASE readable
    BY <1>4, <2>1 DEF ReadLastHash, Types
  <2>2. CASE ~readable
    BY <1>4, <2>2, DoneTypes DEF ReadLastHash
  <2> QED
    BY <2>1, <2>2
<1>5. CASE \E p \in Processes : ReadLastHash(p)
  BY <1>1, <1>4, <1>5
<1>6. CASE \E p \in Processes : Write(p)
  <2>1. PICK p \in Processes : Write(p)
    BY <1>6
  <2>2. pc[p] = "write" /\ pc'[p] = "commit" /\ UNCHANGED <<losses, tampers>>
    BY <2>1 DEF Write, Types
  <2> QED
    BY <2>1, <2>2
<1>7. CASE \E p \in Processes : Commit(p)
  <2>1. PICK p \in Processes : Commit(p)
    BY <1>7
  <2>2. UNCHANGED <<log, losses, tampers>>
    BY <2>1 DEF Commit
  <2>3. \A q \in Processes : pc'[q] = "write" => pc[q] = "write"
    BY <2>1, DoneTypes DEF Commit
  <2>4. readable' <=> readable
    BY <2>2 DEF readable
  <2> QED
    BY <2>1, <2>2, <2>3, <2>4, CommitCounts
<1>8. ASSUME NEW p \in Processes, Crash(p)
      PROVE  /\ UNCHANGED <<inserted, losses, tampers>>
             /\ pc'[p] = "idle"
             /\ \A q \in Processes : pc'[q] # "idle" => pc'[q] = pc[q] /\ op'[q] = op[q]
             /\ log' = log \/ pc[p] = "write"
  BY <1>8, DoneTypes DEF Crash
<1>9. CASE \E p \in Processes : Crash(p)
  <2>1. PICK p \in Processes : Crash(p)
    BY <1>9
  <2>2. CASE log' = log
    BY <1>1, <1>8, <2>1, <2>2
  <2>3. CASE pc[p] = "write"
    BY <1>8, <2>1, <2>3
  <2> QED
    BY <1>8, <2>1, <2>2, <2>3
<1>10. CASE WriteBack
  BY <1>1, <1>10 DEF WriteBack
<1>11. CASE PowerLoss \/ Tamper
  BY <1>11 DEF PowerLoss, Tamper, Types
<1>12. CASE UNCHANGED vars
  BY <1>1, <1>12 DEF vars
<1> QED
  BY <1>3, <1>5, <1>6, <1>7, <1>9, <1>10, <1>11, <1>12 DEF Next

LEMMA CountStep ==
  ASSUME IsFiniteSet(Processes), Types, CountInv, [Next]_vars PROVE CountInv'
<1> SUFFICES ASSUME losses' = 0, tampers' = 0, readable', NEW r \in Inserts
             PROVE  Cardinality(Rows(r)') + Cardinality(Pending(r)') + dangling(r)'
                      <= Cardinality(Logged(r)')
  BY DEF CountInv, Rows, Pending, Logged, dangling, of
<1>1. losses = 0 /\ tampers = 0
  BY CountsStep
<1>2. /\ Cardinality(Rows(r)) \in Nat /\ Cardinality(Logged(r)) \in Nat
      /\ Cardinality(Pending(r)) \in Nat /\ dangling(r) \in {0, 1}
  BY CountsAreNat
<1>3. Types'
  BY TypesStep
<1>4. /\ Cardinality(Rows(r)') \in Nat /\ Cardinality(Pending(r)') \in Nat
      /\ dangling(r)' \in {0, 1}
  <2>1. /\ Len(inserted') \in Nat /\ Rows(r)' \subseteq 1..Len(inserted')
    BY <1>3, LenProperties DEF Types, Rows
  <2>2. Pending(r)' \subseteq Processes
    BY DEF Pending
  <2> QED
    BY <2>1, <2>2, IndexSets, FS_Subset, FS_CardinalityType DEF dangling
<1>5. readable =>
        Cardinality(Rows(r)) + Cardinality(Pending(r)) + dangling(r) <= Cardinality(Logged(r))
  BY <1>1 DEF CountInv
<1>6. CASE /\ readable' <=> readable
           /\ Cardinality(Rows(r)') + Cardinality(Pending(r)') <=
                Cardinality(Rows(r)) + Cardinality(Pending(r))
           /\ Logged(r)' = Logged(r) /\ dangling(r)' = dangling(r)
  BY <1>2, <1>4, <1>5, <1>6
<1>7. CASE \E p \in Processes : Write(p)
  <2>1. PICK k \in {0, 1} :
           /\ Cardinality(Rows(r)') = Cardinality(Rows(r))
           /\ Cardinality(Pending(r)') = Cardinality(Pending(r)) + k
           /\ Cardinality(Logged(r)') = Cardinality(Logged(r)) + k
           /\ dangling(r)' = 0 /\ readable
    BY <1>7, WriteCounts
  <2> QED
    BY <1>2, <1>5, <2>1
<1>8. CASE \E p \in Processes : Crash(p)
  <2>1. /\ Cardinality(Rows(r)') = Cardinality(Rows(r))
        /\ Cardinality(Pending(r)') <= Cardinality(Pending(r))
        /\ \/ log' = log /\ Logged(r)' = Logged(r) /\ dangling(r)' = dangling(r)
           \/ /\ Cardinality(Logged(r)') = Cardinality(Logged(r)) + dangling(r)'
              /\ readable
    BY <1>8, CrashCounts
  <2>2. log' = log => readable
    BY DEF readable
  <2> QED
    BY <1>2, <1>4, <1>5, <2>1, <2>2
<1> QED
  BY <1>6, <1>7, <1>8, CountsStep

\* Every row of the database has a line of its own in the log, for any number
\* of processes and wherever each of them died, as long as the log can be read
\* and no power loss or hand took a line.
THEOREM StoreAuditsFirst == ASSUME IsFiniteSet(Processes) PROVE Spec => []AuditBeforeDb
<1>1. Init => CountInv
  <2> SUFFICES ASSUME Init, NEW r \in Inserts
               PROVE  Cardinality(Rows(r)) + Cardinality(Pending(r)) + dangling(r)
                        <= Cardinality(Logged(r))
    BY DEF CountInv
  <2>1. Rows(r) = {} /\ Pending(r) = {} /\ Logged(r) = {} /\ dangling(r) = 0
    BY DEF Init, Rows, Pending, Logged, dangling
  <2> QED
    BY <2>1, FS_EmptySet
<1>2. Types /\ CountInv /\ [Next]_vars => CountInv'
  BY CountStep
<1>3. Types /\ CountInv => AuditBeforeDb
  <2> SUFFICES ASSUME Types, CountInv, readable, losses = 0, tampers = 0, NEW r \in Inserts
               PROVE  unlogged(r) <= 0
    BY DEF AuditBeforeDb
  <2>1. Cardinality(Rows(r)) + Cardinality(Pending(r)) + dangling(r) <= Cardinality(Logged(r))
    BY DEF CountInv
  <2>2. unlogged(r) = Cardinality(Rows(r)) - Cardinality(Logged(r))
    BY DEF unlogged, Rows, Logged, of
  <2> QED
    BY <2>1, <2>2, CountsAreNat
<1> QED
  BY <1>1, <1>2, <1>3, TypesInvariant, PTL DEF Spec
=============================================================================
