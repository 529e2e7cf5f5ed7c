------------------------ MODULE SessionHistoryProofs ------------------------
(***************************************************************************)
(* Theorems about SessionHistory, for any song, window, hops, retentions   *)
(* and limits: memory and store hold one history, nothing stored is ever   *)
(* contradicted, a baseline's context is of the audio it names, its        *)
(* coverage is what it says, and the audio kept stays within its limit.    *)
(***************************************************************************)
EXTENDS SessionHistory, SequenceTheorems, FiniteSetTheorems, TLAPS

-----------------------------------------------------------------------------
(* The inductive invariant.                                                *)

\* What any state a session has been in satisfies, wherever it is kept.
Sound(m) ==
  /\ Len(m.audit) = Smaller(m.total, AuditRetention)
  /\ \A k \in DOMAIN m.audit : m.audit[k].index = m.total - Len(m.audit) + k
  /\ Len(m.profiles) = m.baseline
  /\ \A v \in DOMAIN m.profiles : m.profiles[v].context = m.profiles[v].hashes
  /\ \A k \in DOMAIN m.frames : m.frames[k].id <= m.sequence
  /\ \A j, k \in DOMAIN m.frames : j < k => m.frames[j].start < m.frames[k].start

\* A change on top of what is stored: nothing stored is changed, and not more
\* audit records are new than memory keeps.
Extends(m) ==
  /\ row.total <= m.total /\ m.total <= row.total + 2
  /\ \A k \in DOMAIN m.audit :
       m.audit[k].index <= row.total => m.audit[k] = archive[m.audit[k].index]
  /\ row.baseline <= m.baseline
  /\ \A v \in 1..row.baseline : m.profiles[v] = shelf[v]

\* In rehearsal the audio under a frame's name is that frame's.
OwnAmong(m, kept) ==
  m.mode = "rehearsal" =>
    \A k \in DOMAIN m.frames, j \in DOMAIN kept :
      kept[j].id = m.frames[k].id => kept[j].take = m.frames[k].take

Own(m) == OwnAmong(m, windows)

OpTypes == [step : {"idle", "scan", "save"}, command : BOOLEAN,
            before : Histories, chosen : Seq(Frames)]

ScanTypes == [next : Nat, covered : [Instruments -> Int], samples : [Instruments -> Nat],
              qualified : [Instruments -> Int], windows : [Instruments -> Nat]]

MemoryInv ==
  /\ memory \in Histories /\ Sound(memory)
  /\ op \in OpTypes /\ Sound(op.before)
  /\ takes \in Nat /\ up \in BOOLEAN /\ dying \in BOOLEAN /\ deleted \in BOOLEAN
  /\ ~up => op = Idle

StoreInv ==
  /\ shelf \in Seq(Profiles) /\ archive \in Seq(Records)
  /\ \A v \in DOMAIN shelf : shelf[v].context = shelf[v].hashes
  /\ deleted => row = None
  /\ ~deleted => row \in Histories /\ Sound(row) /\ StoreHolds(row)
  /\ up /\ ~deleted /\ op.step # "save" => memory = row
  /\ up /\ ~deleted /\ op.step = "save" => op.before = row /\ Extends(memory)

AudioInv ==
  /\ windows \in Seq([id : Nat, take : Nat]) /\ pcm \in Nat
  /\ WindowSamples * Len(windows) <= pcm /\ pcm <= PcmLimit
  /\ Own(memory)
  /\ op.step = "save" => Own(op.before)
  /\ ~up => windows = <<>>

ChoiceInv ==
  op.step = "scan" =>
    /\ op.before = memory /\ memory.mode = "rehearsal"
    /\ \A k \in DOMAIN op.chosen :
         /\ HeldUnder(op.chosen[k].id) # {}
         /\ \E n \in DOMAIN memory.frames : op.chosen[k] = memory.frames[n]
    /\ \A j, k \in DOMAIN op.chosen : j < k => op.chosen[j].start < op.chosen[k].start
    /\ scan.next \in Nat \ {0}

\* The last window heard, and the end of what is covered, before any.
LastHeard(starts, covered) ==
  \/ starts = {} /\ covered = -1
  \/ \E a \in starts : covered = a + WindowSamples /\ \A b \in starts : b <= a

\* Of the windows beginning at `starts`, `count` and no more can be apart, and
\* such a choice can end at `qualified`.  To count the next window it matters
\* that of the windows that end before that, one fewer can be apart.
LastCounted(starts, qualified, count) ==
  /\ \/ starts = {} /\ qualified = -1 /\ count = 0
     \/ /\ \E g \in starts : qualified = g + WindowSamples
        /\ \A S \in SUBSET {a \in starts : a + WindowSamples < qualified} :
             Apart(S) => Cardinality(S) <= count - 1
  /\ \E S \in SUBSET starts : /\ Apart(S) /\ Cardinality(S) = count
                              /\ \A a \in S : a + WindowSamples <= qualified
  /\ \A S \in SUBSET starts : Apart(S) => Cardinality(S) <= count

\* What has been counted of an instrument that was heard in these windows.
Counted(starts, covered, samples, qualified, count) ==
  /\ IsFiniteSet(starts) /\ IsFiniteSet(UNION {Samples(a) : a \in starts})
  /\ samples = Cardinality(UNION {Samples(a) : a \in starts})
  /\ LastHeard(starts, covered) /\ LastCounted(starts, qualified, count)

ScanInv ==
  /\ scan \in ScanTypes
  /\ op.step = "scan" =>
       \A i \in Instruments :
         Counted(Starts(i), scan.covered[i], scan.samples[i], scan.qualified[i], scan.windows[i])

Inv == MemoryInv /\ StoreInv /\ AudioInv /\ ChoiceInv /\ ScanInv

-----------------------------------------------------------------------------
(* The operators the history is kept with.                                 *)

\* The newest n of a sequence are its last ones, in their order.
LEMMA NewestFacts ==
  ASSUME NEW T, NEW s \in Seq(T), NEW n \in Nat \ {0}
  PROVE  /\ Newest(s, n) \in Seq(T)
         /\ Len(Newest(s, n)) = Smaller(Len(s), n)
         /\ Len(Newest(s, n)) \in Nat
         /\ \A k \in 1..Len(Newest(s, n)) :
              /\ k + Len(s) - Len(Newest(s, n)) \in 1..Len(s)
              /\ Newest(s, n)[k] = s[k + Len(s) - Len(Newest(s, n))]
  <1>1. CASE Len(s) > n
    <2>1. /\ Len(s) \in Nat /\ Len(s) - n + 1 \in 1..Len(s)
          /\ Newest(s, n) = SubSeq(s, Len(s) - n + 1, Len(s))
      BY <1>1 DEF Newest
    <2>2. /\ SubSeq(s, Len(s) - n + 1, Len(s)) \in Seq(T)
          /\ Len(SubSeq(s, Len(s) - n + 1, Len(s))) = n
          /\ \A k \in 1..n : SubSeq(s, Len(s) - n + 1, Len(s))[k] = s[Len(s) - n + 1 + k - 1]
      BY <2>1
    <2> QED
      BY <1>1, <2>1, <2>2 DEF Smaller
  <1>2. CASE ~(Len(s) > n)
    BY <1>2 DEF Newest, Smaller
  <1> QED
    BY <1>1, <1>2

\* One more element, and only the newest n are kept: the new one is the last,
\* the others are of the sequence before.
Appended(s, e, n, r) ==
  /\ Len(r) \in Nat \ {0}
  /\ Len(r) = Smaller(Len(s) + 1, n)
  /\ r[Len(r)] = e
  /\ \A k \in 1..Len(r) : k # Len(r) =>
       /\ k + Len(s) + 1 - Len(r) \in 1..Len(s)
       /\ r[k] = s[k + Len(s) + 1 - Len(r)]

LEMMA AppendedFacts ==
  ASSUME NEW T, NEW s \in Seq(T), NEW e \in T, NEW n \in Nat \ {0}
  PROVE  Keep(s, e, n) \in Seq(T) /\ Appended(s, e, n, Keep(s, e, n))
  <1> DEFINE a == Append(s, e)
  <1>0. PICK r : r = Keep(s, e, n)
    OBVIOUS
  <1>1. /\ a \in Seq(T) /\ Len(a) = Len(s) + 1 /\ Len(s) \in Nat
        /\ \A k \in 1..Len(s) : a[k] = s[k]
        /\ a[Len(s) + 1] = e
    OBVIOUS
  <1> HIDE DEF a
  <1>2. /\ r \in Seq(T) /\ Len(r) = Smaller(Len(a), n) /\ Len(r) \in Nat
        /\ \A k \in 1..Len(r) : /\ k + Len(a) - Len(r) \in 1..Len(a)
                                /\ r[k] = a[k + Len(a) - Len(r)]
    BY <1>0, <1>1, NewestFacts DEF a, Keep
  <1>3. Len(r) \in Nat \ {0} /\ Len(r) = Smaller(Len(s) + 1, n)
    BY <1>1, <1>2 DEF Smaller
  <1>4. r[Len(r)] = a[Len(r) + Len(a) - Len(r)]
    BY <1>2, <1>3
  <1>5. ASSUME NEW k \in 1..Len(r), k # Len(r)
        PROVE  /\ k + Len(s) + 1 - Len(r) \in 1..Len(s)
               /\ r[k] = s[k + Len(s) + 1 - Len(r)]
    <2>1. k + Len(a) - Len(r) \in 1..Len(a) /\ k + Len(a) - Len(r) = k + Len(s) + 1 - Len(r)
      BY <1>1, <1>2
    <2>2. k + Len(s) + 1 - Len(r) # Len(s) + 1
      BY <1>1, <1>3, <1>5
    <2>3. k + Len(s) + 1 - Len(r) \in 1..Len(s)
      BY <1>1, <1>3, <2>1, <2>2
    <2> QED
      BY <1>1, <1>2, <2>1, <2>3
  <1>6. Appended(s, e, n, r)
    BY <1>1, <1>3, <1>4, <1>5 DEF Appended
  <1> QED
    BY <1>0, <1>2, <1>6

\* An audit record takes the next index.
LEMMA AuditedFacts ==
  ASSUME NEW m \in Histories, NEW what \in Nat
  PROVE  LET a == Audited(m, what)
         IN  /\ a \in Histories
             /\ a.total = m.total + 1
             /\ a.audit = Keep(m.audit, [index |-> m.total + 1, what |-> what], AuditRetention)
             /\ a.profiles = m.profiles /\ a.baseline = m.baseline /\ a.sequence = m.sequence
             /\ a.frames = m.frames /\ a.mode = m.mode /\ a.workflow = m.workflow
  <1>0. PICK a : a = Audited(m, what)
    OBVIOUS
  <1> DEFINE r == Keep(m.audit, [index |-> m.total + 1, what |-> what], AuditRetention)
  <1>1. m.audit \in Seq(Records) /\ m.total \in Nat
    BY DEF Histories
  <1>2. [index |-> m.total + 1, what |-> what] \in Records
    BY <1>1 DEF Records
  <1>3. r \in Seq(Records)
    BY <1>1, <1>2, AppendedFacts, HistoryAssumption
  <1> HIDE DEF r
  <1>4. a = [m EXCEPT !.total = m.total + 1, !.audit = r]
    BY <1>0 DEF Audited, r
  <1>5. a = [total |-> m.total + 1, audit |-> r, profiles |-> m.profiles,
             baseline |-> m.baseline, sequence |-> m.sequence, frames |-> m.frames,
             mode |-> m.mode, workflow |-> m.workflow]
    BY <1>4 DEF Histories
  <1> QED
    BY <1>0, <1>1, <1>3, <1>5 DEF Histories, r

\* Indices are consecutive and end at the total, and stay so.
Indexed(s, total, n) ==
  /\ Len(s) = Smaller(total, n)
  /\ \A k \in 1..Len(s) : s[k].index = total - Len(s) + k

LEMMA IndexedAppend ==
  ASSUME NEW s \in Seq(Records), NEW total \in Nat, NEW n \in Nat \ {0}, NEW e \in Records,
         Indexed(s, total, n), e.index = total + 1
  PROVE  Indexed(Keep(s, e, n), total + 1, n)
  <1>0. PICK r : r = Keep(s, e, n)
    OBVIOUS
  <1>7. Appended(s, e, n, r)
    BY <1>0, AppendedFacts
  <1>1. Len(r) \in Nat \ {0} /\ Len(r) = Smaller(Len(s) + 1, n)
    BY <1>7 DEF Appended
  <1>2. r[Len(r)] = e
    BY <1>7 DEF Appended
  <1>3. \A k \in 1..Len(r) : k # Len(r) =>
          /\ k + Len(s) + 1 - Len(r) \in 1..Len(s)
          /\ r[k] = s[k + Len(s) + 1 - Len(r)]
    BY <1>7 DEF Appended
  <1>4. Len(s) \in Nat
    OBVIOUS
  <1>5. Len(r) = Smaller(total + 1, n)
    BY <1>1, <1>4 DEF Smaller, Indexed
  <1>6. ASSUME NEW k \in 1..Len(r)
        PROVE  r[k].index = total + 1 - Len(r) + k
    <2>1. CASE k = Len(r)
      BY <1>1, <1>2, <2>1
    <2>2. CASE k # Len(r)
      <3>1. r[k].index = total - Len(s) + (k + Len(s) + 1 - Len(r))
        BY <1>3, <2>2 DEF Indexed
      <3> QED
        BY <3>1, <1>1, <1>4
    <2> QED
      BY <2>1, <2>2
  <1> QED
    BY <1>0, <1>5, <1>6 DEF Indexed

LEMMA AuditedSound ==
  ASSUME NEW m \in Histories, NEW what \in Nat, Sound(m)
  PROVE  Sound(Audited(m, what))
  <1>1. PICK a : a = Audited(m, what)
    OBVIOUS
  <1>2. PICK e : e = [index |-> m.total + 1, what |-> what]
    OBVIOUS
  <1>3. /\ a \in Histories /\ a.total = m.total + 1
        /\ a.audit = Keep(m.audit, e, AuditRetention)
        /\ a.profiles = m.profiles /\ a.baseline = m.baseline /\ a.sequence = m.sequence
        /\ a.frames = m.frames
    BY <1>1, <1>2, AuditedFacts
  <1>4. /\ m.audit \in Seq(Records) /\ m.total \in Nat /\ e \in Records /\ e.index = m.total + 1
        /\ AuditRetention \in Nat \ {0}
    BY <1>2, HistoryAssumption DEF Histories, Records
  <1>5. /\ Len(m.audit) = Smaller(m.total, AuditRetention)
        /\ \A k \in 1..Len(m.audit) : m.audit[k].index = m.total - Len(m.audit) + k
    BY <1>4 DEF Sound
  <1>6. /\ Len(a.audit) = Smaller(a.total, AuditRetention)
        /\ \A k \in 1..Len(a.audit) : a.audit[k].index = a.total - Len(a.audit) + k
    <2>1. PICK s \in Seq(Records) : s = m.audit
      BY <1>4
    <2>2. PICK total \in Nat : total = m.total
      BY <1>4
    <2>3. Indexed(s, total, AuditRetention) /\ e.index = total + 1
      BY <1>4, <1>5, <2>1, <2>2 DEF Indexed
    <2>4. Indexed(Keep(s, e, AuditRetention), total + 1, AuditRetention)
      BY <1>4, <2>3, IndexedAppend
    <2>5. Keep(s, e, AuditRetention) = a.audit /\ a.total = total + 1
      BY <1>3, <2>1, <2>2
    <2> QED
      BY <2>4, <2>5 DEF Indexed
  <1>7. DOMAIN a.audit = 1..Len(a.audit)
    BY <1>3 DEF Histories
  <1>8. Sound(a)
    BY <1>3, <1>6, <1>7 DEF Sound
  <1> QED
    BY <1>8, <1>1

\* A new audit record leaves the records that are stored alone.
LEMMA AuditedExtends ==
  ASSUME NEW m \in Histories, NEW what \in Nat, Sound(m), Extends(m), m.total <= row.total + 1,
         row.total \in Nat
  PROVE  Extends(Audited(m, what))
  <1>1. PICK a : a = Audited(m, what)
    OBVIOUS
  <1>2. PICK e : e = [index |-> m.total + 1, what |-> what]
    OBVIOUS
  <1>3. /\ a \in Histories /\ a.total = m.total + 1
        /\ a.audit = Keep(m.audit, e, AuditRetention)
        /\ a.profiles = m.profiles /\ a.baseline = m.baseline
    BY <1>1, <1>2, AuditedFacts
  <1>4. /\ m.audit \in Seq(Records) /\ m.total \in Nat /\ e \in Records /\ e.index = m.total + 1
        /\ AuditRetention \in Nat \ {0}
    BY <1>2, HistoryAssumption DEF Histories, Records
  <1>5. PICK s \in Seq(Records) : s = m.audit
    BY <1>4
  <1>6. PICK r : r = Keep(s, e, AuditRetention)
    OBVIOUS
  <1>15. Appended(s, e, AuditRetention, r)
    BY <1>4, <1>6, AppendedFacts
  <1>7. r[Len(r)] = e
    BY <1>15 DEF Appended
  <1>8. \A k \in 1..Len(r) : k # Len(r) =>
          /\ k + Len(s) + 1 - Len(r) \in 1..Len(s)
          /\ r[k] = s[k + Len(s) + 1 - Len(r)]
    BY <1>15 DEF Appended
  <1>9. \A k \in 1..Len(s) : s[k].index <= row.total => s[k] = archive[s[k].index]
    BY <1>4, <1>5 DEF Extends
  <1>10. ASSUME NEW k \in 1..Len(r), r[k].index <= row.total
         PROVE  r[k] = archive[r[k].index]
    <2>1. k # Len(r)
      BY <1>4, <1>7, <1>10 DEF Extends
    <2> QED
      BY <2>1, <1>8, <1>9, <1>10
  <1>11. a.audit = r /\ DOMAIN a.audit = 1..Len(r)
    BY <1>3, <1>5, <1>6 DEF Histories
  <1>12. \A k \in DOMAIN a.audit :
            a.audit[k].index <= row.total => a.audit[k] = archive[a.audit[k].index]
    BY <1>10, <1>11
  <1>13. /\ row.total <= a.total /\ a.total <= row.total + 2
         /\ row.baseline <= a.baseline
         /\ \A v \in 1..row.baseline : a.profiles[v] = shelf[v]
    <2>1. \A v \in 1..row.baseline : a.profiles[v] = shelf[v]
      BY <1>3 DEF Extends
    <2>2. row.baseline <= a.baseline
      BY <1>3 DEF Extends
    <2>3. row.total <= a.total /\ a.total <= row.total + 2
      BY <1>3, <1>4 DEF Extends
    <2> QED
      BY <2>1, <2>2, <2>3
  <1>14. Extends(a)
    BY <1>12, <1>13 DEF Extends
  <1> QED
    BY <1>14, <1>1

\* What an operation may have made of memory before it is written.
Grown(m) == m \in Histories /\ Sound(m) /\ Extends(m)

LEMMA NotedGrown ==
  ASSUME NEW m, Grown(m), m.total = row.total, row.total \in Nat, takes \in Nat,
         NEW records \in 0..2
  PROVE  /\ Grown(Noted(m, records))
         /\ Noted(m, records).frames = m.frames /\ Noted(m, records).mode = m.mode
  <1>1. PICK a : a = Audited(m, takes)
    OBVIOUS
  <1>2. PICK b : b = Audited(a, takes)
    OBVIOUS
  <1>3. /\ Grown(a) /\ a.total = m.total + 1
        /\ a.frames = m.frames /\ a.mode = m.mode
    <2>1. Sound(a)
      BY <1>1, AuditedSound DEF Grown
    <2>2. m \in Histories /\ Sound(m) /\ Extends(m) /\ m.total <= row.total + 1
      BY DEF Grown
    <2>3. Extends(a)
      BY <1>1, <2>2, AuditedExtends
    <2> QED
      BY <1>1, <2>1, <2>2, <2>3, AuditedFacts DEF Grown
  <1>4. /\ Grown(b) /\ b.frames = m.frames /\ b.mode = m.mode
    <2>1. a \in Histories /\ Sound(a) /\ Extends(a) /\ a.total <= row.total + 1
      BY <1>3 DEF Grown
    <2>2. Sound(b)
      BY <1>2, <2>1, AuditedSound
    <2>3. Extends(b)
      BY <1>2, <2>1, AuditedExtends
    <2> QED
      BY <1>2, <1>3, <2>1, <2>2, <2>3, AuditedFacts DEF Grown
  <1> QED
    BY <1>1, <1>2, <1>3, <1>4 DEF Noted

\* A session may make audit records whether or not it is stored.
LEMMA NotedSound ==
  ASSUME NEW m \in Histories, Sound(m), takes \in Nat, NEW records \in 0..2
  PROVE  /\ Noted(m, records) \in Histories /\ Sound(Noted(m, records))
         /\ Noted(m, records).frames = m.frames /\ Noted(m, records).mode = m.mode
  <1>1. PICK a : a = Audited(m, takes)
    OBVIOUS
  <1>2. PICK b : b = Audited(a, takes)
    OBVIOUS
  <1>3. a \in Histories /\ Sound(a) /\ a.frames = m.frames /\ a.mode = m.mode
    <2>1. Sound(a)
      BY <1>1, AuditedSound
    <2> QED
      BY <1>1, <2>1, AuditedFacts
  <1>4. b \in Histories /\ Sound(b) /\ b.frames = m.frames /\ b.mode = m.mode
    <2>1. Sound(b)
      BY <1>2, <1>3, AuditedSound
    <2> QED
      BY <1>2, <1>3, <2>1, AuditedFacts
  <1> QED
    BY <1>1, <1>2, <1>3, <1>4 DEF Noted

\* Frames keep their order, with one more at the end.
LEMMA FramesKept ==
  ASSUME NEW s \in Seq(Frames), NEW f \in Frames, NEW n \in Nat \ {0}, NEW last \in Nat,
         f.id = last + 1,
         \A k \in 1..Len(s) : s[k].id <= last /\ s[k].start < f.start,
         \A j, k \in 1..Len(s) : j < k => s[j].start < s[k].start
  PROVE  /\ Keep(s, f, n) \in Seq(Frames)
         /\ \A k \in DOMAIN Keep(s, f, n) :
              /\ Keep(s, f, n)[k].id <= last + 1
              /\ Keep(s, f, n)[k] = f \/ \E p \in DOMAIN s : Keep(s, f, n)[k] = s[p]
         /\ \A j, k \in DOMAIN Keep(s, f, n) :
              j < k => Keep(s, f, n)[j].start < Keep(s, f, n)[k].start
  <1>2. PICK r : r = Keep(s, f, n)
    OBVIOUS
  <1>1. r \in Seq(Frames) /\ Appended(s, f, n, r)
    BY <1>2, AppendedFacts
  <1>3. r \in Seq(Frames) /\ Len(r) \in Nat \ {0}
    BY <1>1 DEF Appended
  <1>0. r[Len(r)] = f
    BY <1>1 DEF Appended
  <1>4. \A k \in 1..Len(r) : k # Len(r) =>
          /\ k + Len(s) + 1 - Len(r) \in 1..Len(s)
          /\ r[k] = s[k + Len(s) + 1 - Len(r)]
    BY <1>1 DEF Appended
  <1>8. ASSUME NEW k \in 1..Len(r)
        PROVE  /\ r[k].id <= last + 1
               /\ r[k] = f \/ \E p \in 1..Len(s) : r[k] = s[p]
    <2>1. CASE k = Len(r)
      BY <1>0, <2>1
    <2>2. CASE k # Len(r)
      <3>1. PICK p \in 1..Len(s) : r[k] = s[p]
        BY <1>4, <2>2
      <3>2. s[p] \in Frames
        OBVIOUS
      <3>3. s[p].id \in Nat
        BY <3>2 DEF Frames
      <3>4. s[p].id <= last
        OBVIOUS
      <3> QED
        BY <3>1, <3>3, <3>4
    <2> QED
      BY <2>1, <2>2
  <1>9. ASSUME NEW j \in 1..Len(r), NEW k \in 1..Len(r), j < k
        PROVE  r[j].start < r[k].start
    <2>1. /\ j # Len(r) /\ j + Len(s) + 1 - Len(r) \in 1..Len(s)
          /\ r[j] = s[j + Len(s) + 1 - Len(r)]
      BY <1>3, <1>4, <1>9
    <2>2. CASE k = Len(r)
      BY <1>0, <2>1, <2>2
    <2>3. CASE k # Len(r)
      <3>1. /\ k + Len(s) + 1 - Len(r) \in 1..Len(s)
            /\ r[k] = s[k + Len(s) + 1 - Len(r)]
        BY <1>4, <2>3
      <3>2. j + Len(s) + 1 - Len(r) < k + Len(s) + 1 - Len(r)
        BY <1>3, <1>9
      <3> QED
        BY <2>1, <3>1, <3>2
    <2> QED
      BY <2>2, <2>3
  <1>10. DOMAIN r = 1..Len(r) /\ DOMAIN s = 1..Len(s)
    BY <1>3
  <1> QED
    BY <1>2, <1>3, <1>8, <1>9, <1>10

\* One more frame: its number is new, it begins after the others, and only the
\* newest are kept.
LEMMA FramedFacts ==
  ASSUME memory \in Histories, Sound(memory), NEW f \in Frames, f.id = memory.sequence + 1,
         \A k \in DOMAIN memory.frames : memory.frames[k].start < f.start
  PROVE  LET g == Framed(f)
         IN  /\ g \in Histories /\ Sound(g)
             /\ g.total = memory.total /\ g.audit = memory.audit
             /\ g.profiles = memory.profiles /\ g.baseline = memory.baseline
             /\ g.mode = memory.mode
             /\ \A k \in DOMAIN g.frames :
                  g.frames[k] = f \/ \E n \in DOMAIN memory.frames : g.frames[k] = memory.frames[n]
  <1>1. PICK s \in Seq(Frames) : s = memory.frames
    BY DEF Histories
  <1>2. PICK n \in Nat \ {0} : n = FrameRetention
    BY HistoryAssumption
  <1>3. PICK last \in Nat : last = memory.sequence
    BY DEF Histories
  <1>4. /\ \A k \in 1..Len(s) : s[k].id <= last /\ s[k].start < f.start
        /\ \A j, k \in 1..Len(s) : j < k => s[j].start < s[k].start
    BY <1>1, <1>3 DEF Sound
  <1>5. /\ Keep(s, f, n) \in Seq(Frames)
        /\ \A k \in DOMAIN Keep(s, f, n) :
             /\ Keep(s, f, n)[k].id <= last + 1
             /\ Keep(s, f, n)[k] = f \/ \E p \in DOMAIN s : Keep(s, f, n)[k] = s[p]
        /\ \A j, k \in DOMAIN Keep(s, f, n) :
             j < k => Keep(s, f, n)[j].start < Keep(s, f, n)[k].start
    BY <1>3, <1>4, FramesKept
  <1>6. PICK g : g = Framed(f)
    OBVIOUS
  <1>7. PICK r : r = Keep(s, f, n)
    OBVIOUS
  <1>8. g = [memory EXCEPT !.sequence = last + 1, !.frames = r]
    BY <1>1, <1>2, <1>3, <1>6, <1>7 DEF Framed
  <1>9. g = [total |-> memory.total, audit |-> memory.audit, profiles |-> memory.profiles,
             baseline |-> memory.baseline, sequence |-> last + 1, frames |-> r,
             mode |-> memory.mode, workflow |-> memory.workflow]
    BY <1>8 DEF Histories
  <1>10. /\ g.total = memory.total /\ g.audit = memory.audit
         /\ g.profiles = memory.profiles /\ g.baseline = memory.baseline
         /\ g.mode = memory.mode /\ g.frames = r /\ g.sequence = last + 1
    BY <1>9
  <1>11. g \in Histories
    BY <1>3, <1>5, <1>7, <1>9 DEF Histories
  <1>12. /\ \A k \in DOMAIN g.frames : g.frames[k].id <= g.sequence
         /\ \A j, k \in DOMAIN g.frames : j < k => g.frames[j].start < g.frames[k].start
    BY <1>5, <1>7, <1>10
  <1>13. Sound(g)
    BY <1>10, <1>12 DEF Sound
  <1> QED
    BY <1>1, <1>5, <1>6, <1>7, <1>10, <1>11, <1>13

-----------------------------------------------------------------------------
(* The audio kept for a baseline.                                          *)

Entries == [id : Nat, take : Nat]

\* The entry under the new name is the new window's; every other one is left.
LEMMA HeldFacts ==
  ASSUME windows \in Seq(Entries), NEW id \in Nat, NEW take \in Nat
  PROVE  /\ Held(id, take) \in Seq(Entries)
         /\ Len(Held(id, take)) \in {Len(windows), Len(windows) + 1} /\ Len(Held(id, take)) >= 1
         /\ \A j \in DOMAIN Held(id, take) :
              \/ Held(id, take)[j].id = id /\ Held(id, take)[j].take = take
              \/ j \in DOMAIN windows /\ Held(id, take)[j] = windows[j] /\ windows[j].id # id
  <1>1. PICK e \in Entries : e = [id |-> id, take |-> take]
    BY DEF Entries
  <1>2. Len(windows) \in Nat /\ DOMAIN windows = 1..Len(windows)
    OBVIOUS
  <1>3. CASE \E k \in DOMAIN windows : windows[k].id = id
    <2>1. PICK h : h = [k \in 1..Len(windows) |-> IF windows[k].id = id THEN e ELSE windows[k]]
      OBVIOUS
    <2>2. h = Held(id, take)
      BY <1>1, <1>2, <1>3, <2>1 DEF Held
    <2>3. h \in [1..Len(windows) -> Entries]
      BY <1>1, <1>2, <2>1
    <2>4. h \in Seq(Entries) /\ Len(h) = Len(windows) /\ DOMAIN h = 1..Len(windows)
      BY <1>2, <2>3
    <2>5. \A j \in 1..Len(windows) : \/ h[j].id = id /\ h[j].take = take
                                     \/ h[j] = windows[j] /\ windows[j].id # id
      BY <1>1, <2>1
    <2>6. Len(windows) >= 1
      BY <1>2, <1>3
    <2> QED
      BY <1>2, <2>2, <2>4, <2>5, <2>6
  <1>4. CASE ~\E k \in DOMAIN windows : windows[k].id = id
    <2>1. PICK h : h = Append(windows, e)
      OBVIOUS
    <2>2. h = Held(id, take)
      BY <1>1, <1>4, <2>1 DEF Held
    <2>3. /\ h \in Seq(Entries) /\ Len(h) = Len(windows) + 1 /\ DOMAIN h = 1..Len(windows) + 1
          /\ h[Len(windows) + 1] = e /\ \A j \in 1..Len(windows) : h[j] = windows[j]
      BY <2>1
    <2> QED
      BY <1>1, <1>2, <1>4, <2>2, <2>3
  <1> QED
    BY <1>3, <1>4

LEMMA DivOne ==
  ASSUME NEW a \in Nat, NEW w \in Nat \ {0}, w <= a, a < w + w
  PROVE  a \div w = 1
  OBVIOUS

\* One window more than was within the limit: at most one has to go.
LEMMA ExcessFacts ==
  ASSUME pcm \in Nat, pcm <= PcmLimit
  PROVE  /\ Excess(pcm + WindowSamples) \in {0, 1}
         /\ pcm + WindowSamples - Excess(pcm + WindowSamples) * WindowSamples \in Nat
         /\ pcm + WindowSamples - Excess(pcm + WindowSamples) * WindowSamples <= PcmLimit
  <1>1. PICK w \in Nat \ {0} : w = WindowSamples
    BY HistoryAssumption
  <1>2. PICK l \in Nat : l = PcmLimit
    BY HistoryAssumption
  <1>3. CASE pcm + w > l
    <2>1. PICK a \in Nat : a = pcm + w - l + w - 1 /\ w <= a /\ a < w + w
      BY <1>1, <1>2, <1>3
    <2>2. a \div w = 1
      BY <2>1, DivOne
    <2>3. Excess(pcm + w) = 1
      BY <1>1, <1>2, <1>3, <2>1, <2>2 DEF Excess
    <2>4. 1 * w = w /\ pcm + w - w = pcm
      BY <1>1
    <2> QED
      BY <1>1, <1>2, <2>3, <2>4
  <1>4. CASE ~(pcm + w > l)
    <2>1. Excess(pcm + w) = 0
      BY <1>1, <1>2, <1>4 DEF Excess
    <2>2. 0 * w = 0
      BY <1>1
    <2> QED
      BY <1>1, <1>2, <1>4, <2>1, <2>2
  <1> QED
    BY <1>3, <1>4

\* The loop of observe_window always finds a window to drop.
LEMMA EvictionFacts ==
  ASSUME windows \in Seq(Entries), pcm \in Nat, pcm <= PcmLimit,
         WindowSamples * Len(windows) <= pcm, NEW id \in Nat, NEW take \in Nat
  PROVE  LET h == Held(id, take)
             e == Excess(pcm + WindowSamples)
         IN  /\ e <= Len(h) /\ e \in {0, 1}
             /\ SubSeq(h, e + 1, Len(h)) \in Seq(Entries)
             /\ WindowSamples * Len(SubSeq(h, e + 1, Len(h))) <= pcm + WindowSamples - e * WindowSamples
             /\ \A j \in DOMAIN SubSeq(h, e + 1, Len(h)) :
                  j + e \in DOMAIN h /\ SubSeq(h, e + 1, Len(h))[j] = h[j + e]
  <1>7. PICK h : h = Held(id, take)
    OBVIOUS
  <1>8. PICK e : e = Excess(pcm + WindowSamples)
    OBVIOUS
  <1>1. e \in {0, 1}
    BY <1>8, ExcessFacts
  <1>2. /\ h \in Seq(Entries) /\ Len(h) \in {Len(windows), Len(windows) + 1} /\ Len(h) >= 1
        /\ Len(h) \in Nat /\ Len(windows) \in Nat
    <2>1. Held(id, take) \in Seq(Entries)
      BY HeldFacts
    <2>2. Len(Held(id, take)) \in {Len(windows), Len(windows) + 1} /\ Len(Held(id, take)) >= 1
      BY HeldFacts
    <2> QED
      BY <1>7, <2>1, <2>2
  <1>3. PICK r : r = SubSeq(h, e + 1, Len(h))
    OBVIOUS
  <1>4. /\ r \in Seq(Entries) /\ Len(r) = Len(h) - e /\ DOMAIN r = 1..Len(h) - e
        /\ \A j \in 1..Len(h) - e : r[j] = h[j + e]
    <2>1. e + 1 \in 1..Len(h) + 1 /\ Len(h) \in 0..Len(h)
      BY <1>1, <1>2
    <2>2. \A k \in 1..Len(h) : h[k] \in Entries
      BY <1>2
    <2>3. /\ r \in Seq(Entries)
          /\ Len(r) = IF e + 1 <= Len(h) THEN Len(h) - (e + 1) + 1 ELSE 0
          /\ \A j \in 1..Len(h) - (e + 1) + 1 : r[j] = h[e + 1 + j - 1]
      BY <1>2, <1>3, <2>1, <2>2, SubSeqProperties
    <2>4. Len(r) = Len(h) - e
      BY <1>1, <1>2, <2>3
    <2>5. DOMAIN r = 1..Len(h) - e
      BY <2>3, <2>4
    <2>6. ASSUME NEW j \in 1..Len(h) - e PROVE r[j] = h[j + e]
      <3>0. PICK n \in Nat, d \in Nat : n = Len(h) /\ d = e
        BY <1>1, <1>2
      <3>2. j \in Int /\ 1 <= j /\ j <= n - d
        BY <3>0
      <3>1. j \in 1..n - (d + 1) + 1 /\ d + 1 + j - 1 = j + d
        BY <3>0, <3>2
      <3>3. \A i \in 1..n - (d + 1) + 1 : r[i] = h[d + 1 + i - 1]
        BY <2>3, <3>0
      <3>4. r[j] = h[d + 1 + j - 1]
        BY <3>1, <3>3
      <3> QED
        BY <3>0, <3>1, <3>4
    <2> QED
      BY <2>3, <2>4, <2>5, <2>6
  <1>5. PICK w \in Nat \ {0} : w = WindowSamples
    BY HistoryAssumption
  <1>6. w * Len(r) <= pcm + w - e * w
    <2>1. PICK n \in Nat : n = Len(windows)
      BY <1>2
    <2>2. w * n \in Nat /\ w * (n + 1) = w * n + w /\ (n >= 1 => w * (n - 1) = w * n - w)
      BY <1>5, <2>1
    <2>3. Len(r) \in {n - 1, n, n + 1} /\ (e = 1 => Len(r) # n + 1) /\ (Len(r) = n - 1 => n >= 1)
      BY <1>1, <1>2, <1>4, <2>1
    <2>4. w * Len(r) <= IF e = 1 THEN w * n ELSE w * n + w
      BY <1>1, <2>1, <2>2, <2>3
    <2>5. e * w = IF e = 1 THEN w ELSE 0
      BY <1>1
    <2>6. w * n <= pcm
      BY <1>5, <2>1
    <2>7. PICK p \in Nat : p = w * n
      BY <2>2
    <2>8. PICK q : q = w * Len(r)
      OBVIOUS
    <2>9. CASE e = 1
      BY <2>4, <2>5, <2>6, <2>7, <2>8, <2>9
    <2>10. CASE e = 0
      BY <2>4, <2>5, <2>6, <2>7, <2>8, <2>10
    <2> QED
      BY <1>1, <2>9, <2>10
  <1>9. /\ e <= Len(h) /\ SubSeq(h, e + 1, Len(h)) \in Seq(Entries)
        /\ \A j \in DOMAIN SubSeq(h, e + 1, Len(h)) :
             j + e \in DOMAIN h /\ SubSeq(h, e + 1, Len(h))[j] = h[j + e]
    <2>1. DOMAIN h = 1..Len(h)
      BY <1>2
    <2>2. \A j \in 1..Len(h) - e : j + e \in 1..Len(h)
      BY <1>1, <1>2
    <2>3. e <= Len(h)
      BY <1>1, <1>2
    <2> QED
      BY <1>3, <1>4, <2>1, <2>2, <2>3
  <1>10. WindowSamples * Len(SubSeq(h, e + 1, Len(h))) <= pcm + WindowSamples - e * WindowSamples
    BY <1>3, <1>5, <1>6
  <1> QED
    BY <1>1, <1>7, <1>8, <1>9, <1>10

-----------------------------------------------------------------------------
(* What a scan of the frames counts.                                       *)

\* The samples of a later window that are not covered are the ones from
\* `covered` on.
LEMMA SamplesCounted ==
  ASSUME NEW starts \in SUBSET Nat, NEW s \in Nat, \A a \in starts : a < s,
         NEW covered \in Int, LastHeard(starts, covered),
         IsFiniteSet(UNION {Samples(a) : a \in starts})
  PROVE  LET U == UNION {Samples(a) : a \in starts \cup {s}}
         IN  /\ IsFiniteSet(U)
             /\ Cardinality(U) = Cardinality(UNION {Samples(a) : a \in starts})
                                  + Larger(0, (s + WindowSamples) - Larger(s, covered))
  <1>1. PICK w \in Nat \ {0} : w = WindowSamples
    BY HistoryAssumption
  <1>2. PICK lo \in Nat : lo = Larger(s, covered)
    BY DEF Larger
  <1>3. /\ s <= lo /\ lo <= s + w
        /\ lo > s => \E a \in starts : lo = a + w
        /\ \A b \in starts : b + w <= lo
    <2>1. CASE starts = {} /\ covered = -1
      BY <1>1, <1>2, <2>1 DEF Larger
    <2>2. CASE \E a \in starts : covered = a + WindowSamples /\ \A b \in starts : b <= a
      <3>1. PICK a \in starts : covered = a + w /\ \A b \in starts : b <= a
        BY <1>1, <2>2
      <3>2. a \in Nat /\ a < s
        OBVIOUS
      <3>3. \A b \in starts : b \in Nat /\ b + w <= a + w
        BY <1>1, <3>1, <3>2
      <3> QED
        BY <1>1, <1>2, <3>1, <3>2, <3>3 DEF Larger
    <2> QED
      BY <2>1, <2>2 DEF LastHeard
  <1>4. PICK old : old = UNION {Samples(a) : a \in starts}
    OBVIOUS
  <1>5. PICK new : new = lo..(s + w - 1)
    OBVIOUS
  <1>6. UNION {Samples(a) : a \in starts \cup {s}} = old \cup new
    <2>1. ASSUME NEW x \in Samples(s)
          PROVE  x \in old \cup new
      <3>1. x \in Nat /\ s <= x /\ x <= s + w - 1
        BY <1>1 DEF Samples
      <3>2. CASE x >= lo
        BY <1>5, <3>1, <3>2
      <3>3. CASE x < lo
        <4>1. PICK a \in starts : lo = a + w
          BY <1>2, <1>3, <3>1, <3>3
        <4>2. a \in Nat /\ a < s /\ a <= x /\ x <= a + w - 1
          BY <1>1, <3>1, <3>3, <4>1
        <4>3. x \in Samples(a)
          BY <1>1, <3>1, <4>2 DEF Samples
        <4> QED
          BY <1>4, <4>3
      <3> QED
        BY <1>2, <3>1, <3>2, <3>3
    <2>2. new \subseteq Samples(s)
      BY <1>1, <1>2, <1>3, <1>5 DEF Samples
    <2>3. UNION {Samples(a) : a \in starts \cup {s}} = old \cup Samples(s)
      BY <1>4
    <2> QED
      BY <2>1, <2>2, <2>3
  <1>7. old \cap new = {}
    <2>1. ASSUME NEW x \in old, x \in new
          PROVE  FALSE
      <3>1. PICK b \in starts : x \in Samples(b)
        BY <1>4
      <3>2. b \in Nat /\ x \in Int /\ x <= b + w - 1 /\ b + w <= lo
        BY <1>1, <1>3, <3>1 DEF Samples
      <3>3. lo <= x
        BY <1>5, <2>1
      <3> QED
        BY <1>1, <1>2, <3>2, <3>3
    <2> QED
      BY <2>1
  <1>8. IsFiniteSet(new) /\ Cardinality(new) = s + w - lo
    <2>1. s + w - 1 \in Int /\ lo \in Int
      BY <1>1
    <2>2. IsFiniteSet(new) /\ Cardinality(new) = IF lo > s + w - 1 THEN 0 ELSE s + w - 1 - lo + 1
      BY <1>5, <2>1, FS_Interval
    <2> QED
      BY <1>1, <1>2, <1>3, <2>2
  <1>9. IsFiniteSet(old) /\ Cardinality(old) \in Nat
    BY <1>4, FS_CardinalityType
  <1>10. /\ IsFiniteSet(old \cup new)
         /\ Cardinality(old \cup new) = Cardinality(old) + Cardinality(new) - Cardinality(old \cap new)
    BY <1>8, <1>9, FS_Union
  <1>11. Cardinality(old \cap new) = 0
    BY <1>7, FS_EmptySet
  <1>12. Larger(0, (s + w) - lo) = s + w - lo
    BY <1>1, <1>2, <1>3 DEF Larger
  <1>13. Cardinality(old \cup new) = Cardinality(old) + Larger(0, (s + w) - lo)
    BY <1>1, <1>2, <1>8, <1>9, <1>10, <1>11, <1>12
  <1> QED
    BY <1>1, <1>2, <1>4, <1>6, <1>10, <1>13

\* A window that begins after the last one counted ends makes one more; one that
\* begins before makes none, for it can only take that one's place.
LEMMA ApartCounted ==
  ASSUME NEW starts \in SUBSET Nat, IsFiniteSet(starts),
         NEW s \in Nat, \A a \in starts : a < s,
         NEW qualified \in Int, NEW count \in Nat, LastCounted(starts, qualified, count)
  PROVE  LastCounted(starts \cup {s},
                     IF s >= qualified THEN s + WindowSamples ELSE qualified,
                     count + IF s >= qualified THEN 1 ELSE 0)
  <1>5. PICK q : q = IF s >= qualified THEN s + WindowSamples ELSE qualified
    OBVIOUS
  <1>6. PICK c : c = count + IF s >= qualified THEN 1 ELSE 0
    OBVIOUS
  <1>1. PICK w \in Nat \ {0} : w = WindowSamples
    BY HistoryAssumption
  <1>7. /\ \/ starts = {} /\ qualified = -1 /\ count = 0
           \/ /\ \E g \in starts : qualified = g + w
              /\ \A S \in SUBSET {a \in starts : a + w < qualified} :
                   Apart(S) => Cardinality(S) <= count - 1
        /\ \E S \in SUBSET starts : /\ Apart(S) /\ Cardinality(S) = count
                                    /\ \A a \in S : a + w <= qualified
        /\ \A S \in SUBSET starts : Apart(S) => Cardinality(S) <= count
    BY <1>1 DEF LastCounted
  <1>8. SUFFICES /\ \E g \in starts \cup {s} : q = g + w
                 /\ \A S \in SUBSET {a \in starts \cup {s} : a + w < q} :
                      Apart(S) => Cardinality(S) <= c - 1
                 /\ \E S \in SUBSET (starts \cup {s}) : /\ Apart(S) /\ Cardinality(S) = c
                                                        /\ \A a \in S : a + w <= q
                 /\ \A S \in SUBSET (starts \cup {s}) : Apart(S) => Cardinality(S) <= c
    BY <1>1, <1>5, <1>6 DEF LastCounted
  <1>2. ASSUME NEW S \in SUBSET (starts \cup {s}), Apart(S)
        PROVE  /\ S \ {s} \in SUBSET starts /\ Apart(S \ {s})
               /\ IsFiniteSet(S) /\ Cardinality(S) \in Nat
               /\ s \in S => /\ Cardinality(S \ {s}) = Cardinality(S) - 1
                             /\ \A a \in S \ {s} : a + w <= s
    <2>1. S \ {s} \in SUBSET starts /\ Apart(S \ {s})
      BY <1>2 DEF Apart
    <2>2. IsFiniteSet(starts \cup {s})
      BY FS_AddElement
    <2>3. IsFiniteSet(S)
      BY <2>2, FS_Subset
    <2>4. Cardinality(S) \in Nat
      BY <2>3, FS_CardinalityType
    <2>5. ASSUME s \in S
          PROVE  /\ Cardinality(S \ {s}) = Cardinality(S) - 1
                 /\ \A a \in S \ {s} : a + w <= s
      <3>1. Cardinality(S \ {s}) = Cardinality(S) - 1
        BY <2>3, <2>5, FS_RemoveElement
      <3>2. ASSUME NEW a \in S \ {s} PROVE a + w <= s
        <4>1. a \in starts /\ a < s
          BY <1>2
        <4> QED
          BY <1>1, <1>2, <2>5, <4>1 DEF Apart
      <3> QED
        BY <3>1, <3>2
    <2> QED
      BY <2>1, <2>3, <2>4, <2>5
  <1>3. CASE s >= qualified
    <2>1. q = s + w /\ c = count + 1
      BY <1>1, <1>3, <1>5, <1>6
    <2>2. ASSUME NEW S \in SUBSET (starts \cup {s}), Apart(S)
          PROVE  Cardinality(S) <= c
      <3>1. CASE s \in S
        <4>1. Cardinality(S \ {s}) <= count
          BY <1>2, <1>7, <2>2
        <4>2. Cardinality(S) \in Nat /\ Cardinality(S \ {s}) = Cardinality(S) - 1
          BY <1>2, <2>2, <3>1
        <4> QED
          BY <2>1, <4>1, <4>2
      <3>2. CASE s \notin S
        <4>1. S \in SUBSET starts
          BY <3>2
        <4>2. Cardinality(S) <= count /\ Cardinality(S) \in Nat
          BY <1>2, <1>7, <2>2, <4>1
        <4> QED
          BY <2>1, <4>2
      <3> QED
        BY <3>1, <3>2
    <2>3. ASSUME NEW S \in SUBSET {a \in starts \cup {s} : a + w < q}, Apart(S)
          PROVE  Cardinality(S) <= c - 1
      <3>1. s \notin S
        BY <1>1, <2>1
      <3>2. S \in SUBSET starts
        BY <3>1
      <3>3. Cardinality(S) <= count
        BY <1>7, <2>3, <3>2
      <3> QED
        BY <2>1, <3>3
    <2>4. \E S \in SUBSET (starts \cup {s}) : /\ Apart(S) /\ Cardinality(S) = c
                                              /\ \A a \in S : a + w <= q
      <3>1. PICK R \in SUBSET starts : /\ Apart(R) /\ Cardinality(R) = count
                                       /\ \A a \in R : a + w <= qualified
        BY <1>7
      <3>2. s \notin R /\ IsFiniteSet(R)
        <4>1. \A a \in R : a \in Nat /\ a < s
          OBVIOUS
        <4>2. s \notin R
          BY <4>1
        <4>3. IsFiniteSet(R)
          BY FS_Subset
        <4> QED
          BY <4>2, <4>3
      <3>3. Cardinality(R \cup {s}) = count + 1
        BY <3>1, <3>2, FS_AddElement
      <3>4. \A a \in R : a \in Nat /\ a < s /\ a + w <= s
        BY <1>1, <1>3, <3>1
      <3>5. Apart(R \cup {s})
        BY <1>1, <3>1, <3>4 DEF Apart
      <3>6. \A a \in R \cup {s} : a + w <= q
        BY <1>1, <2>1, <3>4
      <3> QED
        BY <2>1, <3>3, <3>5, <3>6
    <2>5. \E g \in starts \cup {s} : q = g + w
      BY <2>1
    <2> QED
      BY <2>2, <2>3, <2>4, <2>5
  <1>4. CASE ~(s >= qualified)
    <2>1. q = qualified /\ c = count /\ s < qualified
      BY <1>4, <1>5, <1>6
    <2>2. PICK g \in starts : qualified = g + w
      BY <1>7, <2>1
    <2>3. \A S \in SUBSET {a \in starts : a + w < qualified} :
            Apart(S) => Cardinality(S) <= count - 1
      BY <1>7, <2>1
    <2>4. g \in Nat /\ g < s /\ ~(s + w < qualified)
      BY <1>1, <2>2
    <2>5. ASSUME NEW S \in SUBSET {a \in starts \cup {s} : a + w < q}, Apart(S)
          PROVE  Cardinality(S) <= c - 1
      <3>1. S \in SUBSET {a \in starts : a + w < qualified}
        BY <2>1, <2>4
      <3> QED
        BY <2>1, <2>3, <2>5, <3>1
    <2>6. ASSUME NEW S \in SUBSET (starts \cup {s}), Apart(S)
          PROVE  Cardinality(S) <= c
      <3>1. CASE s \in S
        <4>1. /\ S \ {s} \in SUBSET starts /\ Apart(S \ {s})
              /\ Cardinality(S) \in Nat /\ Cardinality(S \ {s}) = Cardinality(S) - 1
              /\ \A a \in S \ {s} : a + w <= s
          BY <1>2, <2>6, <3>1
        <4>2. S \ {s} \in SUBSET {a \in starts : a + w < qualified}
          <5>1. \A a \in S \ {s} : a \in Nat /\ a + w < qualified
            BY <1>1, <2>1, <4>1
          <5> QED
            BY <4>1, <5>1
        <4>3. Cardinality(S \ {s}) <= count - 1
          BY <2>3, <4>1, <4>2
        <4> QED
          BY <2>1, <4>1, <4>3
      <3>2. CASE s \notin S
        <4>1. S \in SUBSET starts
          BY <3>2
        <4> QED
          BY <1>7, <2>1, <2>6, <4>1
      <3> QED
        BY <3>1, <3>2
    <2>7. \E S \in SUBSET (starts \cup {s}) : /\ Apart(S) /\ Cardinality(S) = c
                                              /\ \A a \in S : a + w <= q
      BY <1>7, <2>1
    <2> QED
      BY <2>1, <2>2, <2>5, <2>6, <2>7
  <1> QED
    BY <1>3, <1>4

-----------------------------------------------------------------------------
(* What a step changes and leaves.                                         *)

LEMMA FreshSound == Fresh \in Histories /\ Sound(Fresh)
  <1>1. Fresh \in Histories
    BY DEF Fresh, Histories
  <1>2. /\ Fresh.total = 0 /\ Fresh.audit = <<>> /\ Fresh.profiles = <<>> /\ Fresh.baseline = 0
        /\ Fresh.frames = <<>>
    BY DEF Fresh
  <1>3. Smaller(0, AuditRetention) = 0
    BY HistoryAssumption DEF Smaller
  <1> QED
    BY <1>1, <1>2, <1>3 DEF Sound

LEMMA IdleTyped == Idle \in OpTypes /\ Sound(Idle.before) /\ Idle.step = "idle"
  <1>1. Idle \in OpTypes
    BY FreshSound DEF Idle, OpTypes
  <1>2. Idle.before = Fresh /\ Idle.step = "idle"
    BY DEF Idle
  <1> QED
    BY <1>1, <1>2, FreshSound

LEMMA UnscannedTyped == Unscanned \in ScanTypes
  BY DEF Unscanned, ScanTypes

\* Two states that differ in mode or workflow only have one history.
LEMMA SameHistory ==
  ASSUME NEW m \in Histories, NEW g \in Histories, Sound(m),
         g.total = m.total, g.audit = m.audit, g.profiles = m.profiles,
         g.baseline = m.baseline, g.sequence = m.sequence, g.frames = m.frames
  PROVE  /\ Sound(g) /\ (Extends(m) => Extends(g))
         /\ Own(m) /\ (g.mode = "rehearsal" => m.mode = "rehearsal") => Own(g)
  <1>1. Sound(g)
    BY DEF Sound
  <1>2. Extends(m) => Extends(g)
    BY DEF Extends
  <1>3. Own(m) /\ (g.mode = "rehearsal" => m.mode = "rehearsal") => Own(g)
    BY DEF Own, OwnAmong
  <1> QED
    BY <1>1, <1>2, <1>3

LEMMA ModeChanged ==
  ASSUME NEW m \in Histories, Sound(m)
  PROVE  LET g == [m EXCEPT !.mode = "live"]
         IN  g \in Histories /\ Sound(g) /\ (Extends(m) => Extends(g)) /\ g.mode = "live"
  <1>1. PICK g : g = [m EXCEPT !.mode = "live"]
    OBVIOUS
  <1>2. /\ g \in Histories /\ g.total = m.total /\ g.audit = m.audit /\ g.profiles = m.profiles
        /\ g.baseline = m.baseline /\ g.sequence = m.sequence /\ g.frames = m.frames
        /\ g.mode = "live"
    BY <1>1 DEF Histories
  <1>3. Sound(g) /\ (Extends(m) => Extends(g))
    BY <1>2, SameHistory
  <1> QED
    BY <1>1, <1>2, <1>3

LEMMA WorkflowChanged ==
  ASSUME NEW m \in Histories, Sound(m), NEW w \in {"open", "paused", "restart", "stopped"}
  PROVE  LET g == [m EXCEPT !.workflow = w]
         IN  /\ g \in Histories /\ Sound(g)
             /\ g.total = m.total /\ g.audit = m.audit /\ g.profiles = m.profiles
             /\ g.baseline = m.baseline /\ g.sequence = m.sequence /\ g.frames = m.frames
             /\ g.mode = m.mode /\ (Extends(m) => Extends(g)) /\ (Own(m) => Own(g))
  <1>1. PICK g : g = [m EXCEPT !.workflow = w]
    OBVIOUS
  <1>2. /\ g \in Histories /\ g.total = m.total /\ g.audit = m.audit /\ g.profiles = m.profiles
        /\ g.baseline = m.baseline /\ g.sequence = m.sequence /\ g.frames = m.frames
        /\ g.mode = m.mode
    BY <1>1 DEF Histories
  <1>3. Sound(g) /\ (Extends(m) => Extends(g)) /\ (Own(m) => Own(g))
    BY <1>2, SameHistory
  <1> QED
    BY <1>1, <1>2, <1>3

\* What is stored extends what is stored.
LEMMA StoredExtends ==
  ASSUME NEW m \in Histories, StoreHolds(m)
  PROVE  Extends(m)
  <1>1. m.total \in Nat /\ m.baseline \in Nat /\ row = m
    BY DEF Histories, StoreHolds
  <1>2. \A k \in DOMAIN m.audit : m.audit[k] = archive[m.audit[k].index]
    BY DEF StoreHolds
  <1>3. \A v \in 1..row.baseline : m.profiles[v] = shelf[v]
    BY DEF StoreHolds
  <1> QED
    BY <1>1, <1>2, <1>3 DEF Extends

\* A change waits to be written, and can be rolled back.
LEMMA ChangesStep ==
  ASSUME Inv, Ready, NEW m \in Histories, NEW command \in BOOLEAN, Changes(m, command),
         Sound(m), ~deleted => Extends(m), takes' \in Nat,
         windows' \in Seq(Entries), pcm' \in Nat,
         WindowSamples * Len(windows') <= pcm', pcm' <= PcmLimit,
         OwnAmong(m, windows'), OwnAmong(memory, windows')
  PROVE  Inv'
  <1>1. /\ memory' = m /\ up /\ up' = up /\ dying' = dying /\ deleted' = deleted
        /\ scan' = scan /\ row' = row /\ archive' = archive /\ shelf' = shelf
        /\ op.step = "idle"
    BY DEF Changes, stored, Ready
  <1>2. op' = [step |-> "save", command |-> command, before |-> memory, chosen |-> <<>>]
    BY DEF Changes, Begins
  <1>3. memory \in Histories /\ Sound(memory)
    BY DEF Inv, MemoryInv
  <1>4. op'.step = "save" /\ op'.before = memory
    BY <1>2
  <1>5. MemoryInv'
    <2>1. op' \in OpTypes
      BY <1>2, <1>3 DEF OpTypes
    <2>2. /\ memory' \in Histories /\ Sound(memory') /\ Sound(op'.before)
      BY <1>1, <1>3, <1>4
    <2>3. takes' \in Nat /\ up' \in BOOLEAN /\ dying' \in BOOLEAN /\ deleted' \in BOOLEAN /\ up'
      BY <1>1 DEF Inv, MemoryInv
    <2>4. Sound(memory)' /\ Sound(op.before)'
      BY <2>2 DEF Sound
    <2>5. (op \in OpTypes)'
      BY <2>1 DEF OpTypes
    <2> QED
      BY <2>2, <2>3, <2>4, <2>5 DEF MemoryInv
  <1>6. StoreInv'
    <2>1. /\ shelf' \in Seq(Profiles) /\ archive' \in Seq(Records)
          /\ \A v \in DOMAIN shelf' : shelf'[v].context = shelf'[v].hashes
          /\ deleted' => row' = None
      BY <1>1 DEF Inv, StoreInv
    <2>2. ~deleted' => row' \in Histories /\ Sound(row)' /\ StoreHolds(row)'
      BY <1>1 DEF Inv, StoreInv, Sound, StoreHolds
    <2>3. ~deleted' => op'.before = row'
      BY <1>1, <1>4 DEF Inv, StoreInv
    <2>4. ~deleted' => Extends(memory)'
      BY <1>1 DEF Extends
    <2> QED
      BY <1>1, <1>4, <2>1, <2>2, <2>3, <2>4 DEF StoreInv
  <1>7. AudioInv'
    <2>1. Own(memory)' /\ Own(op.before)'
      BY <1>1, <1>4 DEF Own, OwnAmong
    <2> QED
      BY <1>1, <2>1 DEF AudioInv, Entries
  <1>8. ChoiceInv' /\ ScanInv'
    BY <1>1, <1>4 DEF Inv, ChoiceInv, ScanInv, ScanTypes
  <1> QED
    BY <1>5, <1>6, <1>7, <1>8 DEF Inv

\* The same, of a change that leaves the audio alone.
LEMMA QuietStep ==
  ASSUME Inv, Ready, NEW m \in Histories, NEW command \in BOOLEAN, Changes(m, command),
         Sound(m), ~deleted => Extends(m), takes' \in Nat, UNCHANGED audio, Own(m)
  PROVE  Inv'
  <1>1. /\ windows' = windows /\ pcm' = pcm
        /\ windows \in Seq(Entries) /\ pcm \in Nat
        /\ WindowSamples * Len(windows) <= pcm /\ pcm <= PcmLimit /\ Own(memory)
    BY DEF audio, Inv, AudioInv, Entries
  <1>2. OwnAmong(m, windows') /\ OwnAmong(memory, windows')
    BY <1>1 DEF Own
  <1>3. windows' \in Seq(Entries) /\ pcm' \in Nat
    BY <1>1
  <1>4. WindowSamples * Len(windows') <= pcm' /\ pcm' <= PcmLimit
    BY <1>1
  <1> QED
    BY <1>2, <1>3, <1>4, ChangesStep

\* Between operations memory is what is stored.
LEMMA ReadyFacts ==
  ASSUME Inv, Ready
  PROVE  /\ memory \in Histories /\ Sound(memory) /\ Own(memory) /\ takes \in Nat
         /\ ~deleted => /\ Extends(memory) /\ memory.total = row.total /\ row.total \in Nat
  <1>1. /\ memory \in Histories /\ Sound(memory) /\ Own(memory) /\ takes \in Nat
        /\ up /\ op.step = "idle"
    BY DEF Inv, MemoryInv, AudioInv, Ready
  <1>2. ASSUME ~deleted PROVE Extends(memory) /\ memory.total = row.total /\ row.total \in Nat
    <2>1. memory = row /\ StoreHolds(row)
      BY <1>1, <1>2 DEF Inv, StoreInv
    <2>2. StoreHolds(memory)
      BY <2>1
    <2> QED
      BY <1>1, <2>1, <2>2, StoredExtends DEF Histories
  <1> QED
    BY <1>1, <1>2

LEMMA AdjustStep == Inv /\ Adjust => Inv'
  <1> SUFFICES ASSUME Inv, Adjust PROVE Inv'
    OBVIOUS
  <1>1. PICK records \in 1..2 : Changes(Noted(memory, records), TRUE)
    BY DEF Adjust
  <1>2. Ready /\ UNCHANGED audio /\ takes' = takes + 1
    BY DEF Adjust, Stamped
  <1>3. PICK m : m = Noted(memory, records)
    OBVIOUS
  <1>4. m \in Histories /\ Sound(m) /\ m.frames = memory.frames /\ m.mode = memory.mode
    BY <1>2, <1>3, ReadyFacts, NotedSound
  <1>5. ~deleted => Extends(m)
    BY <1>2, <1>3, ReadyFacts, NotedGrown DEF Grown
  <1>6. Own(m)
    BY <1>2, <1>4, ReadyFacts DEF Own, OwnAmong
  <1>7. takes' \in Nat
    BY <1>2, ReadyFacts
  <1> QED
    BY <1>1, <1>2, <1>3, <1>4, <1>5, <1>6, <1>7, QuietStep

LEMMA StartLiveStep == Inv /\ StartLive => Inv'
  <1> SUFFICES ASSUME Inv, StartLive PROVE Inv'
    OBVIOUS
  <1>1. /\ Ready /\ UNCHANGED audio /\ takes' = takes
        /\ Changes([memory EXCEPT !.mode = "live"], TRUE)
    BY DEF StartLive
  <1>2. PICK m : m = [memory EXCEPT !.mode = "live"]
    OBVIOUS
  <1>3. m \in Histories /\ Sound(m) /\ (~deleted => Extends(m)) /\ m.mode = "live"
    BY <1>1, <1>2, ReadyFacts, ModeChanged
  <1>4. Own(m)
    BY <1>3 DEF Own, OwnAmong
  <1>5. takes' \in Nat
    BY <1>1, ReadyFacts
  <1> QED
    BY <1>1, <1>2, <1>3, <1>4, <1>5, QuietStep

LEMMA WorkflowStep == Inv /\ (Pause \/ Resume \/ Stop) => Inv'
  <1> SUFFICES ASSUME Inv, Pause \/ Resume \/ Stop PROVE Inv'
    OBVIOUS
  <1>1. PICK w \in {"open", "paused", "restart", "stopped"}, command \in BOOLEAN :
          Changes([memory EXCEPT !.workflow = w], command)
    BY DEF Pause, Resume, Stop
  <1>2. Ready /\ UNCHANGED audio /\ takes' = takes
    BY DEF Pause, Resume, Stop
  <1>3. PICK m : m = [memory EXCEPT !.workflow = w]
    OBVIOUS
  <1>4. m \in Histories /\ Sound(m) /\ (~deleted => Extends(m)) /\ Own(m)
    <2>1. memory \in Histories /\ Sound(memory) /\ Own(memory) /\ (~deleted => Extends(memory))
      BY <1>2, ReadyFacts
    <2>2. m \in Histories /\ Sound(m)
      BY <1>3, <2>1, WorkflowChanged
    <2>3. (Extends(memory) => Extends(m)) /\ (Own(memory) => Own(m))
      BY <1>3, <2>1, WorkflowChanged
    <2> QED
      BY <2>1, <2>2, <2>3
  <1>5. takes' \in Nat
    BY <1>2, ReadyFacts
  <1> QED
    BY <1>1, <1>2, <1>3, <1>4, <1>5, QuietStep

\* The next frame is numbered and begins after those that are kept.
LEMMA NextFrameFacts ==
  ASSUME memory \in Histories, Sound(memory), takes \in Nat,
         NEW hop \in Hops, NEW heard \in SUBSET Instruments
  PROVE  LET f == NextFrame(hop, heard)
         IN  /\ f \in Frames /\ f.id = memory.sequence + 1 /\ f.take = takes
             /\ \A k \in DOMAIN memory.frames : memory.frames[k].start < f.start
  <1>1. PICK s \in Seq(Frames) : s = memory.frames
    BY DEF Histories
  <1>2. PICK start : start = IF s = <<>> THEN 0 ELSE s[Len(s)].start + hop
    OBVIOUS
  <1>3. hop \in Nat \ {0}
    BY HistoryAssumption
  <1>4. start \in Nat /\ \A k \in DOMAIN s : s[k].start < start
    <2>1. CASE s = <<>>
      BY <1>2, <2>1
    <2>2. CASE s # <<>>
      <3>1. Len(s) \in DOMAIN s /\ Len(s) \in Nat /\ DOMAIN s = 1..Len(s)
        BY <2>2
      <3>2. ASSUME NEW k \in DOMAIN s PROVE s[k].start \in Nat
        <4>1. s[k] \in Frames
          OBVIOUS
        <4> QED
          BY <4>1 DEF Frames
      <3>3. \A k \in DOMAIN s : k < Len(s) => s[k].start < s[Len(s)].start
        BY <1>1, <3>1 DEF Sound
      <3>4. start = s[Len(s)].start + hop /\ s[Len(s)].start \in Nat
        BY <1>2, <2>2, <3>1, <3>2
      <3>5. ASSUME NEW k \in DOMAIN s PROVE s[k].start < start
        <4>1. CASE k = Len(s)
          BY <1>3, <3>4, <4>1
        <4>2. CASE k # Len(s)
          <5>1. k < Len(s)
            BY <3>1, <4>2
          <5>2. s[k].start < s[Len(s)].start /\ s[k].start \in Nat
            BY <3>2, <3>3, <5>1
          <5> QED
            BY <1>3, <3>4, <5>2
        <4> QED
          BY <4>1, <4>2
      <3> QED
        BY <1>3, <3>4, <3>5
    <2> QED
      BY <2>1, <2>2
  <1>5. PICK f : f = NextFrame(hop, heard)
    OBVIOUS
  <1>6. f = [id |-> memory.sequence + 1, start |-> start, heard |-> heard, take |-> takes]
    BY <1>1, <1>2, <1>5 DEF NextFrame
  <1>7. f \in Frames /\ f.id = memory.sequence + 1 /\ f.start = start /\ f.take = takes
    BY <1>4, <1>6 DEF Frames, Histories
  <1> QED
    BY <1>1, <1>4, <1>5, <1>7

\* What an observation makes of memory.
LEMMA ObservedFacts ==
  ASSUME Inv, Ready, NEW hop \in Hops, NEW heard \in SUBSET Instruments,
         NEW records \in AuditsPerWindow
  PROVE  LET f == NextFrame(hop, heard)
             m == Noted(Framed(f), records)
         IN  /\ m \in Histories /\ Sound(m) /\ (~deleted => Extends(m)) /\ m.mode = memory.mode
             /\ f \in Frames /\ f.id = memory.sequence + 1 /\ f.take = takes
             /\ \A k \in DOMAIN m.frames :
                  m.frames[k] = f \/ \E n \in DOMAIN memory.frames : m.frames[k] = memory.frames[n]
  <1>1. PICK f : f = NextFrame(hop, heard)
    OBVIOUS
  <1>2. PICK g : g = Framed(f)
    OBVIOUS
  <1>3. PICK m : m = Noted(g, records)
    OBVIOUS
  <1>4. /\ memory \in Histories /\ Sound(memory) /\ takes \in Nat
        /\ ~deleted => Extends(memory) /\ memory.total = row.total /\ row.total \in Nat
    BY ReadyFacts
  <1>5. /\ f \in Frames /\ f.id = memory.sequence + 1 /\ f.take = takes
        /\ \A k \in DOMAIN memory.frames : memory.frames[k].start < f.start
    BY <1>1, <1>4, NextFrameFacts
  <1>6. /\ g \in Histories /\ Sound(g)
        /\ g.total = memory.total /\ g.audit = memory.audit
        /\ g.profiles = memory.profiles /\ g.baseline = memory.baseline
        /\ g.mode = memory.mode
    BY <1>2, <1>4, <1>5, FramedFacts
  <1>7. \A k \in DOMAIN g.frames :
          g.frames[k] = f \/ \E n \in DOMAIN memory.frames : g.frames[k] = memory.frames[n]
    BY <1>2, <1>4, <1>5, FramedFacts
  <1>8. records \in 0..2
    BY HistoryAssumption
  <1>9. m \in Histories /\ Sound(m) /\ m.frames = g.frames /\ m.mode = g.mode
    BY <1>3, <1>4, <1>6, <1>8, NotedSound
  <1>10. ASSUME ~deleted PROVE Extends(m)
    <2>1. Extends(g)
      BY <1>4, <1>6, <1>10 DEF Extends
    <2>2. Grown(g) /\ g.total = row.total /\ row.total \in Nat
      BY <1>4, <1>6, <1>10, <2>1 DEF Grown
    <2> QED
      BY <1>3, <1>4, <1>8, <2>2, NotedGrown DEF Grown
  <1> QED
    BY <1>1, <1>2, <1>3, <1>5, <1>6, <1>7, <1>9, <1>10

LEMMA ObserveLiveStep == Inv /\ ObserveLive => Inv'
  <1> SUFFICES ASSUME Inv, ObserveLive PROVE Inv'
    OBVIOUS
  <1>1. Ready /\ memory.mode = "live" /\ takes' = takes + 1 /\ UNCHANGED audio
    BY DEF ObserveLive, Observable, Stamped
  <1>2. PICK hop \in Hops, records \in AuditsPerWindow :
          Changes(Noted(Framed(NextFrame(hop, {})), records), FALSE)
    BY DEF ObserveLive
  <1>3. PICK m : m = Noted(Framed(NextFrame(hop, {})), records)
    OBVIOUS
  <1>4. {} \in SUBSET Instruments
    OBVIOUS
  <1>5. m \in Histories /\ Sound(m) /\ (~deleted => Extends(m)) /\ m.mode = memory.mode
    BY <1>1, <1>3, <1>4, ObservedFacts
  <1>6. Own(m)
    BY <1>1, <1>5 DEF Own, OwnAmong
  <1>7. takes' \in Nat
    BY <1>1, ReadyFacts
  <1> QED
    BY <1>1, <1>2, <1>3, <1>5, <1>6, <1>7, QuietStep

\* The window's audio is kept under its frame's name, and under no other frame's:
\* no frame that memory has, or can be rolled back to, has that name.
LEMMA ObserveRehearsalStep == Inv /\ ObserveRehearsal => Inv'
  <1> SUFFICES ASSUME Inv, ObserveRehearsal PROVE Inv'
    OBVIOUS
  <1>1. Ready /\ takes' = takes + 1
    BY DEF ObserveRehearsal, Observable, Stamped
  <1>2. PICK hop \in Hops, heard \in SUBSET Instruments, records \in AuditsPerWindow :
          LET frame == NextFrame(hop, heard)
              held  == Held(frame.id, takes)
              count == pcm + WindowSamples
          IN  /\ windows' = SubSeq(held, Excess(count) + 1, Len(held))
              /\ pcm' = count - Excess(count) * WindowSamples
              /\ Changes(Noted(Framed(frame), records), FALSE)
    BY DEF ObserveRehearsal
  <1>3. PICK f : f = NextFrame(hop, heard)
    OBVIOUS
  <1>4. PICK m : m = Noted(Framed(f), records)
    OBVIOUS
  <1>5. PICK e : e = Excess(pcm + WindowSamples)
    OBVIOUS
  <1>6. PICK h : h = Held(f.id, takes)
    OBVIOUS
  <1>7. /\ windows' = SubSeq(h, e + 1, Len(h)) /\ pcm' = pcm + WindowSamples - e * WindowSamples
        /\ Changes(m, FALSE)
    <2>1. windows' = SubSeq(h, e + 1, Len(h))
      BY <1>2, <1>3, <1>5, <1>6
    <2>2. pcm' = pcm + WindowSamples - e * WindowSamples
      <3>1. pcm \in Nat /\ pcm <= PcmLimit
        BY DEF Inv, AudioInv
      <3>2. e \in {0, 1}
        BY <1>5, <3>1, ExcessFacts
      <3>3. pcm' = (pcm + WindowSamples) - Excess(pcm + WindowSamples) * WindowSamples
        BY <1>2
      <3>4. PICK w \in Nat : w = WindowSamples
        BY HistoryAssumption
      <3>5. e * w \in Nat
        BY <3>2, <3>4
      <3>6. PICK x \in Nat : x = e * w
        BY <3>5
      <3>7. pcm' = (pcm + w) - x
        BY <1>5, <3>3, <3>4, <3>6
      <3> QED
        BY <3>1, <3>4, <3>6, <3>7
    <2>3. Changes(m, FALSE)
      BY <1>2, <1>3, <1>4
    <2> QED
      BY <2>1, <2>2, <2>3
  <1>8. /\ m \in Histories /\ Sound(m) /\ (~deleted => Extends(m)) /\ m.mode = memory.mode
        /\ f \in Frames /\ f.id = memory.sequence + 1 /\ f.take = takes
    BY <1>1, <1>3, <1>4, ObservedFacts
  <1>9. \A k \in DOMAIN m.frames :
          m.frames[k] = f \/ \E n \in DOMAIN memory.frames : m.frames[k] = memory.frames[n]
    BY <1>1, <1>3, <1>4, ObservedFacts
  <1>10. /\ memory \in Histories /\ Sound(memory) /\ Own(memory) /\ takes \in Nat /\ takes' \in Nat
    BY <1>1, ReadyFacts
  <1>11. /\ windows \in Seq(Entries) /\ pcm \in Nat /\ pcm <= PcmLimit
         /\ WindowSamples * Len(windows) <= pcm
    BY DEF Inv, AudioInv, Entries
  <1>12. f.id \in Nat
    BY <1>8 DEF Frames
  <1>13. /\ windows' \in Seq(Entries)
         /\ WindowSamples * Len(windows') <= pcm'
         /\ \A j \in DOMAIN windows' : j + e \in DOMAIN h /\ windows'[j] = h[j + e]
    <2>1. PICK id \in Nat, take \in Nat : id = f.id /\ take = takes
      BY <1>10, <1>12
    <2>2. h = Held(id, take)
      BY <1>6, <2>1
    <2>3. /\ SubSeq(h, e + 1, Len(h)) \in Seq(Entries)
          /\ WindowSamples * Len(SubSeq(h, e + 1, Len(h))) <= pcm + WindowSamples - e * WindowSamples
          /\ \A j \in DOMAIN SubSeq(h, e + 1, Len(h)) :
               j + e \in DOMAIN h /\ SubSeq(h, e + 1, Len(h))[j] = h[j + e]
      BY <1>5, <1>11, <2>2, EvictionFacts
    <2> QED
      BY <1>7, <2>3
  <1>14. pcm' \in Nat /\ pcm' <= PcmLimit
    BY <1>5, <1>7, <1>11, ExcessFacts
  <1>15. \A j \in DOMAIN h :
           \/ h[j].id = f.id /\ h[j].take = takes
           \/ j \in DOMAIN windows /\ h[j] = windows[j] /\ windows[j].id # f.id
    <2>1. PICK id \in Nat, take \in Nat : id = f.id /\ take = takes
      BY <1>10, <1>12
    <2>2. h = Held(id, take)
      BY <1>6, <2>1
    <2>3. \A j \in DOMAIN h :
            \/ h[j].id = id /\ h[j].take = take
            \/ j \in DOMAIN windows /\ h[j] = windows[j] /\ windows[j].id # id
      BY <1>11, <2>2, HeldFacts
    <2> QED
      BY <2>1, <2>3
  <1>16. \A k \in DOMAIN memory.frames : memory.frames[k].id # f.id
    <2>1. ASSUME NEW k \in DOMAIN memory.frames PROVE memory.frames[k].id # f.id
      <3>1. memory.frames[k].id <= memory.sequence /\ memory.sequence \in Nat
        BY <1>10 DEF Sound, Histories
      <3> QED
        BY <1>8, <3>1
    <2> QED
      BY <2>1
  <1>17. ASSUME NEW j \in DOMAIN windows', memory.mode = "rehearsal"
         PROVE  /\ windows'[j].id = f.id => windows'[j].take = takes
                /\ \A k \in DOMAIN memory.frames :
                     windows'[j].id = memory.frames[k].id => windows'[j].take = memory.frames[k].take
    <2>1. PICK i \in DOMAIN h : windows'[j] = h[i]
      BY <1>13
    <2>2. CASE h[i].id = f.id /\ h[i].take = takes
      BY <1>16, <2>1, <2>2
    <2>3. CASE i \in DOMAIN windows /\ h[i] = windows[i] /\ windows[i].id # f.id
      BY <1>10, <1>17, <2>1, <2>3 DEF Own, OwnAmong
    <2> QED
      BY <1>15, <2>2, <2>3
  <1>18. OwnAmong(memory, windows')
    BY <1>17 DEF OwnAmong
  <1>19. OwnAmong(m, windows')
    BY <1>8, <1>9, <1>17 DEF OwnAmong
  <1> QED
    BY <1>1, <1>7, <1>8, <1>10, <1>13, <1>14, <1>18, <1>19, ChangesStep

-----------------------------------------------------------------------------
(* Accepting a baseline.                                                   *)

LEMMA NothingCounted == Counted({}, -1, 0, -1, 0)
  <1>1. UNION {Samples(a) : a \in {}} = {}
    OBVIOUS
  <1>2. IsFiniteSet({}) /\ Cardinality({}) = 0
    BY FS_EmptySet
  <1>3. Apart({}) /\ \A S \in SUBSET {} : Cardinality(S) <= 0
    BY <1>2 DEF Apart
  <1>4. \E S \in SUBSET {} : /\ Apart(S) /\ Cardinality(S) = 0
                             /\ \A a \in S : a + WindowSamples <= -1
    BY <1>2, <1>3
  <1> QED
    BY <1>1, <1>2, <1>3, <1>4 DEF Counted, LastHeard, LastCounted

\* Nothing has been counted of the frames of an interval.
LEMMA AcceptStep == Inv /\ Accept => Inv'
  <1> SUFFICES ASSUME Inv, Accept PROVE Inv'
    OBVIOUS
  <1>1. /\ up /\ op.step = "idle" /\ ~dying /\ memory.mode = "rehearsal" /\ scan' = Unscanned
        /\ memory' = memory /\ windows' = windows /\ pcm' = pcm /\ up' = up /\ dying' = dying
        /\ deleted' = deleted /\ takes' = takes
        /\ row' = row /\ archive' = archive /\ shelf' = shelf
    BY DEF Accept, Ready, audio, stored
  <1>2. PICK first \in DOMAIN memory.frames, last \in DOMAIN memory.frames :
          LET chosen == SubSeq(memory.frames, first, last)
          IN  /\ first <= last
              /\ \A k \in 1..Len(chosen) : HeldUnder(chosen[k].id) # {}
              /\ Begins("scan", TRUE, chosen)
    BY DEF Accept
  <1>3. PICK c : c = SubSeq(memory.frames, first, last)
    OBVIOUS
  <1>4. PICK s \in Seq(Frames) : s = memory.frames
    BY DEF Inv, MemoryInv, Histories
  <1>5. /\ first \in 1..Len(s) /\ last \in 1..Len(s) /\ Len(s) \in Nat /\ first <= last
    BY <1>2, <1>4
  <1>6. /\ c \in Seq(Frames) /\ Len(c) = last - first + 1 /\ DOMAIN c = 1..Len(c)
        /\ \A k \in 1..Len(c) : k + first - 1 \in 1..Len(s) /\ c[k] = s[k + first - 1]
    <2>1. c = SubSeq(s, first, last)
      BY <1>3, <1>4
    <2>2. \A k \in first..last : s[k] \in Frames
      BY <1>5
    <2>3. first \in 1..Len(s) + 1 /\ last \in 0..Len(s)
      BY <1>5
    <2>4. /\ c \in Seq(Frames)
          /\ Len(c) = IF first <= last THEN last - first + 1 ELSE 0
          /\ \A k \in 1..last - first + 1 : c[k] = s[first + k - 1]
      BY <2>1, <2>2, <2>3, SubSeqProperties
    <2>5. Len(c) = last - first + 1 /\ DOMAIN c = 1..Len(c)
      BY <1>5, <2>4
    <2>6. ASSUME NEW k \in 1..Len(c)
          PROVE  k + first - 1 \in 1..Len(s) /\ c[k] = s[k + first - 1]
      <3>1. k \in 1..last - first + 1
        BY <2>5
      <3>2. first + k - 1 = k + first - 1
        BY <1>5, <3>1
      <3>3. c[k] = s[first + k - 1]
        BY <1>5, <2>4, <3>1
      <3>4. k + first - 1 \in 1..Len(s)
        BY <1>5, <3>1
      <3> QED
        BY <3>2, <3>3, <3>4
    <2> QED
      BY <2>4, <2>5, <2>6
  <1>7. op' = [step |-> "scan", command |-> TRUE, before |-> memory, chosen |-> c]
    BY <1>2, <1>3 DEF Begins
  <1>8. op'.step = "scan" /\ op'.before = memory /\ op'.chosen = c
    BY <1>7
  <1>9. \A k \in 1..Len(c) : HeldUnder(c[k].id) # {}
    BY <1>2, <1>3
  <1>10. \A j, k \in DOMAIN c : j < k => c[j].start < c[k].start
    <2>1. ASSUME NEW j \in DOMAIN c, NEW k \in DOMAIN c, j < k
          PROVE  c[j].start < c[k].start
      <3>1. \A x, y \in 1..Len(s) : x < y => s[x].start < s[y].start
        <4>1. Sound(memory)
          BY DEF Inv, MemoryInv
        <4>2. \A x, y \in DOMAIN s : x < y => s[x].start < s[y].start
          BY <1>4, <4>1 DEF Sound
        <4> QED
          BY <4>2
      <3>2. j + first - 1 < k + first - 1
        BY <1>5, <1>6, <2>1
      <3>3. /\ j + first - 1 \in 1..Len(s) /\ c[j] = s[j + first - 1]
            /\ k + first - 1 \in 1..Len(s) /\ c[k] = s[k + first - 1]
        <4>1. j \in 1..Len(c) /\ k \in 1..Len(c)
          BY <1>6, <2>1
        <4>2. \A n \in 1..Len(c) : n + first - 1 \in 1..Len(s) /\ c[n] = s[n + first - 1]
          BY <1>6
        <4> QED
          BY <4>1, <4>2, Zenon
      <3>4. s[j + first - 1].start < s[k + first - 1].start
        BY <3>1, <3>2, <3>3
      <3> QED
        BY <3>3, <3>4
    <2> QED
      BY <2>1
  <1>11. MemoryInv'
    <2>1. op' \in OpTypes
      BY <1>6, <1>7 DEF Inv, MemoryInv, OpTypes
    <2>2. Sound(op'.before) /\ Sound(memory')
      BY <1>1, <1>8 DEF Inv, MemoryInv
    <2>3. Sound(memory)' /\ Sound(op.before)' /\ (op \in OpTypes)'
      BY <2>1, <2>2 DEF Sound, OpTypes
    <2> QED
      BY <1>1, <2>3 DEF Inv, MemoryInv
  <1>12. StoreInv'
    <2>1. ~deleted' => row' \in Histories /\ Sound(row)' /\ StoreHolds(row)'
      BY <1>1 DEF Inv, StoreInv, Sound, StoreHolds
    <2> QED
      BY <1>1, <1>8, <2>1 DEF Inv, StoreInv
  <1>13. AudioInv'
    BY <1>1, <1>8 DEF Inv, AudioInv, Own, OwnAmong
  <1>14. ChoiceInv'
    <2>1. ASSUME NEW k \in DOMAIN c
          PROVE  \E n \in DOMAIN memory.frames : c[k] = memory.frames[n]
      <3>1. PICK n \in 1..Len(s) : n = k + first - 1 /\ c[k] = s[n]
        BY <1>6
      <3>2. n \in DOMAIN memory.frames
        BY <1>4
      <3> QED
        BY <1>4, <3>1, <3>2
    <2>3. scan'.next = 1
      BY <1>1 DEF Unscanned
    <2>4. \A k \in DOMAIN op'.chosen : HeldUnder(op.chosen[k].id)' # {}
      BY <1>1, <1>6, <1>8, <1>9 DEF HeldUnder
    <2> QED
      BY <1>1, <1>8, <1>10, <2>1, <2>3, <2>4 DEF ChoiceInv
  <1>15. ScanInv'
    <2>1. scan' \in ScanTypes
      BY <1>1, UnscannedTyped
    <2>2. ASSUME NEW i \in Instruments
          PROVE  /\ Starts(i)' = {} /\ scan'.covered[i] = -1 /\ scan'.samples[i] = 0
                 /\ scan'.qualified[i] = -1 /\ scan'.windows[i] = 0
      <3>1. scan'.next = 1
        BY <1>1 DEF Unscanned
      <3>2. {n \in DOMAIN op'.chosen : n < 1 /\ i \in op'.chosen[n].heard} = {}
        BY <1>6, <1>8
      <3>3. Starts(i)' = {}
        BY <3>1, <3>2 DEF Starts
      <3> QED
        BY <1>1, <3>3 DEF Unscanned
    <2>3. ASSUME NEW i \in Instruments
          PROVE  Counted(Starts(i)', scan'.covered[i], scan'.samples[i], scan'.qualified[i], scan'.windows[i])
      BY <2>2, NothingCounted
    <2>4. (scan \in ScanTypes)'
      BY <2>1 DEF ScanTypes
    <2> QED
      BY <2>3, <2>4 DEF ScanInv, Counted, LastHeard, LastCounted, Apart, Samples
  <1> QED
    BY <1>11, <1>12, <1>13, <1>14, <1>15 DEF Inv

\* One more window heard, after the others.
LEMMA CountedStep ==
  ASSUME NEW starts \in SUBSET Nat, NEW s \in Nat, \A a \in starts : a < s,
         NEW covered \in Int, NEW samples \in Nat, NEW qualified \in Int, NEW count \in Nat,
         Counted(starts, covered, samples, qualified, count)
  PROVE  Counted(starts \cup {s}, Larger(covered, s + WindowSamples),
                 samples + Larger(0, (s + WindowSamples) - Larger(s, covered)),
                 IF s >= qualified THEN s + WindowSamples ELSE qualified,
                 count + IF s >= qualified THEN 1 ELSE 0)
  <1>1. PICK w \in Nat \ {0} : w = WindowSamples
    BY HistoryAssumption
  <1>2. IsFiniteSet(starts) /\ IsFiniteSet(UNION {Samples(a) : a \in starts})
    BY DEF Counted
  <1>3. LastHeard(starts, covered)
    BY DEF Counted
  <1>4. PICK U : U = UNION {Samples(a) : a \in starts \cup {s}}
    OBVIOUS
  <1>5. samples = Cardinality(UNION {Samples(a) : a \in starts})
    BY DEF Counted
  <1>6. /\ IsFiniteSet(U)
        /\ samples + Larger(0, (s + WindowSamples) - Larger(s, covered)) = Cardinality(U)
    <2>1. /\ IsFiniteSet(U)
          /\ Cardinality(U) = Cardinality(UNION {Samples(a) : a \in starts})
                               + Larger(0, (s + WindowSamples) - Larger(s, covered))
      BY <1>2, <1>3, <1>4, SamplesCounted
    <2> QED
      BY <1>5, <2>1
  <1>7. PICK q : q = IF s >= qualified THEN s + WindowSamples ELSE qualified
    OBVIOUS
  <1>8. PICK c : c = count + IF s >= qualified THEN 1 ELSE 0
    OBVIOUS
  <1>9. LastCounted(starts \cup {s}, q, c)
    BY <1>2, <1>7, <1>8, ApartCounted DEF Counted
  <1>10. PICK d : d = Larger(covered, s + WindowSamples)
    OBVIOUS
  <1>11. LastHeard(starts \cup {s}, d)
    <2>1. covered <= s + w
      <3>1. CASE covered = -1
        BY <3>1
      <3>2. CASE \E a \in starts : covered = a + WindowSamples
        <4>1. PICK a \in starts : covered = a + w
          BY <1>1, <3>2
        <4>2. a \in Nat /\ a < s
          OBVIOUS
        <4> QED
          BY <4>1, <4>2
      <3> QED
        BY <1>3, <3>1, <3>2 DEF LastHeard
    <2>2. d = s + w
      BY <1>1, <1>10, <2>1 DEF Larger
    <2>3. \A b \in starts \cup {s} : b <= s
      OBVIOUS
    <2> QED
      BY <1>1, <2>2, <2>3 DEF LastHeard
  <1>12. IsFiniteSet(starts \cup {s})
    BY <1>2, FS_AddElement
  <1>13. Counted(starts \cup {s}, d, Cardinality(U), q, c)
    BY <1>4, <1>6, <1>9, <1>11, <1>12 DEF Counted
  <1> QED
    BY <1>6, <1>7, <1>8, <1>10, <1>13

\* The frame counted next begins after those counted before.
LEMMA StartsStep ==
  ASSUME op \in OpTypes, scan.next \in Nat \ {0}, scan.next <= Len(op.chosen),
         op' = op, scan'.next = scan.next + 1, NEW i,
         \A j, k \in DOMAIN op.chosen : j < k => op.chosen[j].start < op.chosen[k].start
  PROVE  LET f == op.chosen[scan.next]
         IN  /\ f \in Frames
             /\ Starts(i) \in SUBSET Nat /\ \A a \in Starts(i) : a < f.start
             /\ Starts(i)' = IF i \in f.heard THEN Starts(i) \cup {f.start} ELSE Starts(i)
  <1>1. PICK c \in Seq(Frames) : c = op.chosen
    BY DEF OpTypes
  <1>2. PICK n \in 1..Len(c) : n = scan.next
    BY <1>1
  <1>3. /\ c[n] \in Frames /\ DOMAIN c = 1..Len(c)
        /\ \A k \in 1..Len(c) : c[k].start \in Nat
    <2>1. ASSUME NEW k \in 1..Len(c) PROVE c[k].start \in Nat
      <3>1. c[k] \in Frames
        OBVIOUS
      <3> QED
        BY <3>1 DEF Frames
    <2> QED
      BY <2>1
  <1>4. Starts(i) = {c[k].start : k \in {x \in 1..Len(c) : x < n /\ i \in c[x].heard}}
    BY <1>1, <1>2, <1>3 DEF Starts
  <1>5. Starts(i)' = {c[k].start : k \in {x \in 1..Len(c) : x < n + 1 /\ i \in c[x].heard}}
    BY <1>1, <1>2, <1>3 DEF Starts
  <1>6. \A x \in 1..Len(c) : x < n + 1 <=> x < n \/ x = n
    OBVIOUS
  <1>7. Starts(i)' = IF i \in c[n].heard THEN Starts(i) \cup {c[n].start} ELSE Starts(i)
    <2>1. CASE i \in c[n].heard
      <3>1. {x \in 1..Len(c) : x < n + 1 /\ i \in c[x].heard}
              = {x \in 1..Len(c) : x < n /\ i \in c[x].heard} \cup {n}
        BY <1>6, <2>1
      <3> QED
        BY <1>4, <1>5, <2>1, <3>1
    <2>2. CASE i \notin c[n].heard
      <3>1. {x \in 1..Len(c) : x < n + 1 /\ i \in c[x].heard}
              = {x \in 1..Len(c) : x < n /\ i \in c[x].heard}
        BY <1>6, <2>2
      <3> QED
        BY <1>4, <1>5, <2>2, <3>1
    <2> QED
      BY <2>1, <2>2
  <1>8. \A x \in 1..Len(c) : x < n => c[x].start < c[n].start
    BY <1>1, <1>3
  <1> QED
    BY <1>1, <1>2, <1>3, <1>4, <1>7, <1>8

\* What Scanned makes of one instrument's counts.
LEMMA ScannedFacts ==
  ASSUME NEW s \in ScanTypes, NEW f \in Frames
  PROVE  LET t == Scanned(s, f)
         IN  /\ t.next = s.next + 1
             /\ t \in ScanTypes
             /\ \A i \in Instruments :
                  /\ i \notin f.heard => /\ t.covered[i] = s.covered[i]
                                         /\ t.samples[i] = s.samples[i]
                                         /\ t.qualified[i] = s.qualified[i]
                                         /\ t.windows[i] = s.windows[i]
                  /\ i \in f.heard =>
                       /\ t.covered[i] = Larger(s.covered[i], f.start + WindowSamples)
                       /\ t.samples[i] = s.samples[i] + Larger(0, (f.start + WindowSamples)
                                                                   - Larger(f.start, s.covered[i]))
                       /\ t.qualified[i] = IF f.start >= s.qualified[i]
                                           THEN f.start + WindowSamples ELSE s.qualified[i]
                       /\ t.windows[i] = s.windows[i] + IF f.start >= s.qualified[i] THEN 1 ELSE 0
  <1>1. PICK t : t = Scanned(s, f)
    OBVIOUS
  <1>2. /\ s.next \in Nat /\ s.covered \in [Instruments -> Int] /\ s.samples \in [Instruments -> Nat]
        /\ s.qualified \in [Instruments -> Int] /\ s.windows \in [Instruments -> Nat]
        /\ f.start \in Nat /\ WindowSamples \in Nat
    BY HistoryAssumption DEF ScanTypes, Frames
  <1> DEFINE sm == [i \in Instruments |-> s.samples[i] + Larger(0, (f.start + WindowSamples)
                                                                   - Larger(f.start, s.covered[i]))]
             cv == [i \in Instruments |-> Larger(s.covered[i], f.start + WindowSamples)]
             wn == [i \in Instruments |-> s.windows[i] + IF f.start >= s.qualified[i] THEN 1 ELSE 0]
             ql == [i \in Instruments |-> IF f.start >= s.qualified[i]
                                          THEN f.start + WindowSamples ELSE s.qualified[i]]
  <1>3. t = [next |-> s.next + 1,
             samples   |-> [i \in Instruments |-> IF i \in f.heard THEN sm[i] ELSE s.samples[i]],
             covered   |-> [i \in Instruments |-> IF i \in f.heard THEN cv[i] ELSE s.covered[i]],
             windows   |-> [i \in Instruments |-> IF i \in f.heard THEN wn[i] ELSE s.windows[i]],
             qualified |-> [i \in Instruments |-> IF i \in f.heard THEN ql[i] ELSE s.qualified[i]]]
    BY <1>1 DEF Scanned, End
  <1>4. /\ sm \in [Instruments -> Nat] /\ cv \in [Instruments -> Int]
        /\ wn \in [Instruments -> Nat] /\ ql \in [Instruments -> Int]
    BY <1>2 DEF Larger
  <1>5. \A i \in Instruments :
          /\ cv[i] = Larger(s.covered[i], f.start + WindowSamples)
          /\ sm[i] = s.samples[i] + Larger(0, (f.start + WindowSamples)
                                               - Larger(f.start, s.covered[i]))
          /\ ql[i] = IF f.start >= s.qualified[i] THEN f.start + WindowSamples ELSE s.qualified[i]
          /\ wn[i] = s.windows[i] + IF f.start >= s.qualified[i] THEN 1 ELSE 0
    OBVIOUS
  <1> HIDE DEF sm, cv, wn, ql
  <1>6. t.next = s.next + 1 /\ t \in ScanTypes
    BY <1>2, <1>3, <1>4 DEF ScanTypes
  <1>7. \A i \in Instruments :
          /\ t.covered[i] = IF i \in f.heard THEN cv[i] ELSE s.covered[i]
          /\ t.samples[i] = IF i \in f.heard THEN sm[i] ELSE s.samples[i]
          /\ t.qualified[i] = IF i \in f.heard THEN ql[i] ELSE s.qualified[i]
          /\ t.windows[i] = IF i \in f.heard THEN wn[i] ELSE s.windows[i]
    BY <1>3
  <1> QED
    BY <1>1, <1>5, <1>6, <1>7

LEMMA ScanFrameStep == Inv /\ ScanFrame => Inv'
  <1> SUFFICES ASSUME Inv, ScanFrame PROVE Inv'
    OBVIOUS
  <1>1. /\ up /\ op.step = "scan" /\ scan.next <= Len(op.chosen)
        /\ scan' = Scanned(scan, op.chosen[scan.next])
        /\ memory' = memory /\ windows' = windows /\ pcm' = pcm /\ op' = op /\ up' = up
        /\ dying' = dying /\ deleted' = deleted /\ takes' = takes
        /\ row' = row /\ archive' = archive /\ shelf' = shelf
    BY DEF ScanFrame, audio, stored
  <1>2. PICK f : f = op.chosen[scan.next]
    OBVIOUS
  <1>3. /\ op \in OpTypes /\ scan.next \in Nat \ {0} /\ scan \in ScanTypes
        /\ \A j, k \in DOMAIN op.chosen : j < k => op.chosen[j].start < op.chosen[k].start
    BY <1>1 DEF Inv, MemoryInv, ChoiceInv, ScanInv
  <1>4. f \in Frames
    <2>1. PICK c \in Seq(Frames) : c = op.chosen
      BY <1>3 DEF OpTypes
    <2>2. PICK n \in 1..Len(c) : n = scan.next
      BY <1>1, <1>3, <2>1
    <2> QED
      BY <1>2, <2>1, <2>2
  <1>5. PICK s \in ScanTypes : s = scan
    BY <1>3
  <1>6. PICK t \in ScanTypes : t = scan' /\ t = Scanned(s, f)
    BY <1>1, <1>2, <1>4, <1>5, ScannedFacts
  <1>7. t.next = s.next + 1
    BY <1>4, <1>6, ScannedFacts
  <1>8. ASSUME NEW i \in Instruments
        PROVE  Counted(Starts(i)', t.covered[i], t.samples[i], t.qualified[i], t.windows[i])
    <2>1. /\ Starts(i) \in SUBSET Nat /\ \A a \in Starts(i) : a < f.start
          /\ Starts(i)' = IF i \in f.heard THEN Starts(i) \cup {f.start} ELSE Starts(i)
      BY <1>1, <1>2, <1>3, <1>5, <1>6, <1>7, StartsStep
    <2>2. Counted(Starts(i), s.covered[i], s.samples[i], s.qualified[i], s.windows[i])
      BY <1>1, <1>5 DEF Inv, ScanInv
    <2>3. CASE i \notin f.heard
      <3>1. /\ t.covered[i] = s.covered[i] /\ t.samples[i] = s.samples[i]
            /\ t.qualified[i] = s.qualified[i] /\ t.windows[i] = s.windows[i]
        BY <1>4, <1>6, <2>3, ScannedFacts
      <3> QED
        BY <2>1, <2>2, <2>3, <3>1
    <2>4. CASE i \in f.heard
      <3>1. /\ s.covered[i] \in Int /\ s.samples[i] \in Nat /\ s.qualified[i] \in Int
            /\ s.windows[i] \in Nat /\ f.start \in Nat
        BY <1>4 DEF ScanTypes, Frames
      <3>2. PICK covered \in Int, samples \in Nat, qualified \in Int, count \in Nat, start \in Nat :
              /\ covered = s.covered[i] /\ samples = s.samples[i] /\ qualified = s.qualified[i]
              /\ count = s.windows[i] /\ start = f.start
        BY <3>1
      <3>3. PICK starts \in SUBSET Nat : starts = Starts(i)
        BY <2>1
      <3>4. Counted(starts \cup {start}, Larger(covered, start + WindowSamples),
                    samples + Larger(0, (start + WindowSamples) - Larger(start, covered)),
                    IF start >= qualified THEN start + WindowSamples ELSE qualified,
                    count + IF start >= qualified THEN 1 ELSE 0)
        <4>1. Counted(starts, covered, samples, qualified, count) /\ \A a \in starts : a < start
          BY <2>1, <2>2, <3>2, <3>3
        <4> QED
          BY <4>1, CountedStep
      <3>5. /\ t.covered[i] = Larger(covered, start + WindowSamples)
            /\ t.samples[i] = samples + Larger(0, (start + WindowSamples) - Larger(start, covered))
            /\ t.qualified[i] = IF start >= qualified THEN start + WindowSamples ELSE qualified
            /\ t.windows[i] = count + IF start >= qualified THEN 1 ELSE 0
        BY <1>4, <1>6, <2>4, <3>2, ScannedFacts
      <3>6. Starts(i)' = starts \cup {start}
        BY <2>1, <2>4, <3>2, <3>3
      <3> QED
        BY <3>4, <3>5, <3>6
    <2> QED
      BY <2>3, <2>4
  <1>9. ScanInv'
    <2>1. (scan \in ScanTypes)'
      BY <1>6 DEF ScanTypes
    <2>2. ASSUME NEW i \in Instruments
          PROVE  Counted(Starts(i), scan.covered[i], scan.samples[i], scan.qualified[i], scan.windows[i])'
      BY <1>6, <1>8 DEF Counted, LastHeard, LastCounted, Apart, Samples
    <2> QED
      BY <2>1, <2>2 DEF ScanInv
  <1>10. MemoryInv'
    BY <1>1 DEF Inv, MemoryInv, Sound, OpTypes
  <1>11. StoreInv'
    <2>1. ~deleted' => row' \in Histories /\ Sound(row)' /\ StoreHolds(row)'
      BY <1>1 DEF Inv, StoreInv, Sound, StoreHolds
    <2> QED
      BY <1>1, <2>1 DEF Inv, StoreInv
  <1>12. AudioInv'
    BY <1>1 DEF Inv, AudioInv, Own, OwnAmong
  <1>13. ChoiceInv'
    <2>1. \A k \in DOMAIN op'.chosen : HeldUnder(op.chosen[k].id)' # {}
      BY <1>1 DEF Inv, ChoiceInv, HeldUnder
    <2>2. scan'.next \in Nat \ {0}
      BY <1>3, <1>5, <1>6, <1>7
    <2> QED
      BY <1>1, <2>1, <2>2 DEF Inv, ChoiceInv
  <1> QED
    BY <1>9, <1>10, <1>11, <1>12, <1>13 DEF Inv

\* What a roll-back leaves: the session as it was when the lock was taken.
LEMMA RollBackStep ==
  ASSUME Inv, up, op.step \in {"scan", "save"}, RollBack,
         UNCHANGED <<audio, up, dying, deleted, takes, stored>>
  PROVE  Inv'
  <1>1. /\ memory' = op.before /\ op' = Idle /\ scan' = Unscanned
        /\ windows' = windows /\ pcm' = pcm /\ up' = up
        /\ dying' = dying /\ deleted' = deleted /\ takes' = takes
        /\ row' = row /\ archive' = archive /\ shelf' = shelf
    BY DEF RollBack, audio, stored
  <1>2. op' \in OpTypes /\ Sound(op'.before) /\ op'.step = "idle"
    BY <1>1, IdleTyped
  <1>3. MemoryInv'
    <2>1. memory' \in Histories /\ Sound(memory')
      BY <1>1 DEF Inv, MemoryInv, OpTypes
    <2>2. Sound(memory)' /\ Sound(op.before)' /\ (op \in OpTypes)'
      BY <1>2, <2>1 DEF Sound, OpTypes
    <2> QED
      BY <1>1, <2>1, <2>2 DEF Inv, MemoryInv
  <1>4. StoreInv'
    <2>1. ~deleted' => row' \in Histories /\ Sound(row)' /\ StoreHolds(row)'
      BY <1>1 DEF Inv, StoreInv, Sound, StoreHolds
    <2>2. ~deleted' => memory' = row'
      BY <1>1 DEF Inv, StoreInv, ChoiceInv
    <2> QED
      BY <1>1, <1>2, <2>1, <2>2 DEF Inv, StoreInv
  <1>5. AudioInv'
    <2>1. Own(op.before)
      BY DEF Inv, AudioInv, ChoiceInv
    <2>2. Own(memory)'
      BY <1>1, <2>1 DEF Own, OwnAmong
    <2> QED
      BY <1>1, <1>2, <2>2 DEF Inv, AudioInv
  <1>6. ChoiceInv'
    BY <1>2 DEF ChoiceInv
  <1>7. ScanInv'
    <2>1. (scan \in ScanTypes)'
      BY <1>1, UnscannedTyped DEF ScanTypes
    <2> QED
      BY <1>2, <2>1 DEF ScanInv
  <1> QED
    BY <1>3, <1>4, <1>5, <1>6, <1>7 DEF Inv

\* The context is prepared of the audio the hashes are of.
LEMMA ProfileFacts ==
  ASSUME Inv, op.step = "scan"
  PROVE  Profile \in Profiles /\ Profile.context = Profile.hashes
  <1>1. PICK c \in Seq(Frames) : c = op.chosen
    BY DEF Inv, MemoryInv, OpTypes
  <1>2. PICK n \in Nat : n = Len(c)
    OBVIOUS
  <1>3. ASSUME NEW k \in 1..n
        PROVE  c[k].take \in Nat /\ (CHOOSE t \in HeldUnder(c[k].id) : TRUE) = c[k].take
    <2>1. c[k] \in Frames
      BY <1>2
    <2>2. PICK x \in DOMAIN memory.frames : c[k] = memory.frames[x]
      BY <1>1, <1>2 DEF Inv, ChoiceInv
    <2>3. \A j \in DOMAIN windows : windows[j].id = c[k].id => windows[j].take = c[k].take
      BY <2>2 DEF Inv, AudioInv, ChoiceInv, Own, OwnAmong
    <2>4. \A t \in HeldUnder(c[k].id) : t = c[k].take
      BY <2>3 DEF HeldUnder
    <2>5. HeldUnder(c[k].id) # {}
      BY <1>1, <1>2 DEF Inv, ChoiceInv
    <2> QED
      BY <2>1, <2>4, <2>5 DEF Frames
  <1>4. PICK h : h = [k \in 1..n |-> c[k].take]
    OBVIOUS
  <1>5. h \in Seq(Nat)
    <2>1. h \in [1..n -> Nat]
      BY <1>3, <1>4
    <2> QED
      BY <2>1
  <1>6. ContextOf(c) = h
    BY <1>2, <1>3, <1>4 DEF ContextOf
  <1>7. PICK p : p = Profile
    OBVIOUS
  <1>8. p = [take |-> takes, hashes |-> h, context |-> h, samples |-> scan.samples,
             windows |-> scan.windows]
    BY <1>1, <1>2, <1>4, <1>6, <1>7 DEF Profile
  <1>9. takes \in Nat /\ scan.samples \in [Instruments -> Nat] /\ scan.windows \in [Instruments -> Nat]
    BY DEF Inv, MemoryInv, ScanInv, ScanTypes
  <1>10. p \in Profiles /\ p.context = p.hashes
    BY <1>5, <1>8, <1>9 DEF Profiles
  <1> QED
    BY <1>7, <1>10

\* A version is put after the last one.
LEMMA PutAfter ==
  ASSUME NEW s \in Seq(Profiles), NEW e \in Profiles
  PROVE  /\ Put(s, Len(s) + 1, e) \in Seq(Profiles) /\ Len(Put(s, Len(s) + 1, e)) = Len(s) + 1
         /\ \A k \in 1..Len(s) : Put(s, Len(s) + 1, e)[k] = s[k]
         /\ Put(s, Len(s) + 1, e)[Len(s) + 1] = e
  <1>1. PICK n \in Nat : n = Len(s)
    OBVIOUS
  <1>2. DOMAIN s \cup {n + 1} = 1..n + 1 /\ \A k \in 1..n : s[k] \in Profiles
    BY <1>1
  <1>3. PICK p : p = [k \in 1..n + 1 |-> IF k = n + 1 THEN e ELSE s[k]]
    OBVIOUS
  <1>4. p = Put(s, n + 1, e)
    BY <1>2, <1>3 DEF Put
  <1>5. p \in [1..n + 1 -> Profiles]
    BY <1>2, <1>3
  <1>6. p \in Seq(Profiles) /\ Len(p) = n + 1
    BY <1>5
  <1>7. p[n + 1] = e /\ \A k \in 1..n : p[k] = s[k]
    BY <1>3
  <1> QED
    BY <1>1, <1>4, <1>6, <1>7

\* A new version on top of the old ones.
LEMMA VersionAdded ==
  ASSUME NEW m \in Histories, Sound(m), NEW p \in Profiles, p.context = p.hashes
  PROVE  LET g == [m EXCEPT !.profiles = Put(@, m.baseline + 1, p), !.baseline = m.baseline + 1]
         IN  /\ g \in Histories /\ Sound(g) /\ g.total = m.total /\ g.audit = m.audit
             /\ g.frames = m.frames /\ g.mode = m.mode
             /\ g.baseline = m.baseline + 1
             /\ \A v \in 1..m.baseline : g.profiles[v] = m.profiles[v]
  <1>1. PICK s \in Seq(Profiles) : s = m.profiles
    BY DEF Histories
  <1>2. m.baseline = Len(s) /\ m.baseline \in Nat
    BY <1>1 DEF Sound, Histories
  <1>3. PICK r : r = Put(s, Len(s) + 1, p)
    OBVIOUS
  <1>4. /\ r \in Seq(Profiles) /\ Len(r) = Len(s) + 1
        /\ \A k \in 1..Len(s) : r[k] = s[k]
        /\ r[Len(s) + 1] = p
    BY <1>3, PutAfter
  <1>5. PICK g : g = [m EXCEPT !.profiles = Put(@, m.baseline + 1, p), !.baseline = m.baseline + 1]
    OBVIOUS
  <1>6. g = [m EXCEPT !.profiles = r, !.baseline = m.baseline + 1]
    BY <1>1, <1>2, <1>3, <1>5
  <1>7. g = [total |-> m.total, audit |-> m.audit, profiles |-> r, baseline |-> m.baseline + 1,
             sequence |-> m.sequence, frames |-> m.frames, mode |-> m.mode,
             workflow |-> m.workflow]
    BY <1>6 DEF Histories
  <1>8. /\ g.total = m.total /\ g.audit = m.audit /\ g.profiles = r
        /\ g.baseline = m.baseline + 1 /\ g.sequence = m.sequence /\ g.frames = m.frames
        /\ g.mode = m.mode
    BY <1>7
  <1>9. g \in Histories
    BY <1>2, <1>4, <1>7 DEF Histories
  <1>10. \A v \in 1..Len(s) : s[v].context = s[v].hashes
    BY <1>1 DEF Sound
  <1>11. \A v \in DOMAIN r : r[v].context = r[v].hashes
    <2>1. DOMAIN r = 1..Len(s) + 1
      BY <1>4
    <2>2. ASSUME NEW v \in 1..Len(s) + 1 PROVE r[v].context = r[v].hashes
      <3>1. CASE v = Len(s) + 1
        BY <1>4, <3>1
      <3>2. CASE v # Len(s) + 1
        <4>1. v \in 1..Len(s)
          BY <3>2
        <4> QED
          BY <1>4, <1>10, <4>1
      <3> QED
        BY <3>1, <3>2
    <2> QED
      BY <2>1, <2>2
  <1>12. Sound(g)
    BY <1>2, <1>4, <1>8, <1>11 DEF Sound
  <1> QED
    BY <1>1, <1>2, <1>4, <1>5, <1>8, <1>9, <1>12

LEMMA AcceptedStep == Inv /\ Accepted => Inv'
  <1> SUFFICES ASSUME Inv, Accepted PROVE Inv'
    OBVIOUS
  <1>1. /\ up /\ op.step = "scan" /\ takes' = takes + 1
        /\ op' = [op EXCEPT !.step = "save"] /\ scan' = Unscanned
        /\ windows' = windows /\ pcm' = pcm /\ up' = up /\ dying' = dying /\ deleted' = deleted
        /\ row' = row /\ archive' = archive /\ shelf' = shelf
    BY DEF Accepted, Stamped, audio, stored
  <1>2. PICK p : p = Profile
    OBVIOUS
  <1>3. p \in Profiles /\ p.context = p.hashes
    BY <1>1, <1>2, ProfileFacts
  <1>4. PICK g : g = [memory EXCEPT !.profiles = Put(@, memory.baseline + 1, p),
                                    !.baseline = memory.baseline + 1]
    OBVIOUS
  <1>5. memory' = Audited(g, takes)
    <2>1. memory' = Audited([memory EXCEPT !.profiles = Put(@, memory.baseline + 1, Profile),
                                           !.baseline = memory.baseline + 1], takes)
      BY DEF Accepted
    <2> QED
      BY <1>2, <1>4, <2>1
  <1>6. memory \in Histories /\ Sound(memory) /\ takes \in Nat /\ takes' \in Nat
    BY <1>1 DEF Inv, MemoryInv
  <1>7. /\ g \in Histories /\ Sound(g) /\ g.total = memory.total /\ g.audit = memory.audit
        /\ g.frames = memory.frames /\ g.mode = memory.mode
        /\ g.baseline = memory.baseline + 1
        /\ \A v \in 1..memory.baseline : g.profiles[v] = memory.profiles[v]
    BY <1>3, <1>4, <1>6, VersionAdded
  <1>8. PICK m : m = Audited(g, takes)
    OBVIOUS
  <1>9. m \in Histories /\ Sound(m) /\ m.frames = memory.frames /\ m.mode = memory.mode
    <2>1. Sound(m)
      BY <1>6, <1>7, <1>8, AuditedSound
    <2>2. m \in Histories /\ m.frames = g.frames /\ m.mode = g.mode
      BY <1>6, <1>7, <1>8, AuditedFacts
    <2> QED
      BY <1>7, <2>1, <2>2
  <1>10. ASSUME ~deleted PROVE Extends(m) /\ op.before = row
    <2>1. memory = row /\ StoreHolds(row) /\ op.before = memory
      BY <1>1, <1>10 DEF Inv, StoreInv, ChoiceInv
    <2>2. Extends(memory) /\ row.baseline \in Nat /\ row.total \in Nat
      BY <1>6, <2>1, StoredExtends DEF Histories
    <2>3. Extends(g) /\ g.total <= row.total + 1
      BY <1>7, <2>1, <2>2 DEF Extends
    <2> QED
      BY <1>6, <1>7, <1>8, <2>1, <2>2, <2>3, AuditedExtends
  <1>11. /\ op' \in OpTypes /\ op'.step = "save" /\ op'.before = op.before
    BY <1>1 DEF Inv, MemoryInv, OpTypes
  <1>12. MemoryInv'
    <2>1. memory' \in Histories /\ Sound(memory') /\ Sound(op'.before)
      BY <1>5, <1>8, <1>9, <1>11 DEF Inv, MemoryInv
    <2>2. Sound(memory)' /\ Sound(op.before)' /\ (op \in OpTypes)'
      BY <1>11, <2>1 DEF Sound, OpTypes
    <2> QED
      BY <1>1, <1>6, <2>1, <2>2 DEF Inv, MemoryInv
  <1>13. StoreInv'
    <2>1. ~deleted' => row' \in Histories /\ Sound(row)' /\ StoreHolds(row)'
      BY <1>1 DEF Inv, StoreInv, Sound, StoreHolds
    <2>2. ~deleted' => Extends(memory)' /\ op'.before = row'
      BY <1>1, <1>5, <1>8, <1>10, <1>11 DEF Extends
    <2> QED
      BY <1>1, <1>11, <2>1, <2>2 DEF Inv, StoreInv
  <1>14. AudioInv'
    <2>1. Own(memory) /\ op.before = memory
      BY <1>1 DEF Inv, AudioInv, ChoiceInv
    <2>2. Own(memory)' /\ Own(op.before)'
      BY <1>1, <1>5, <1>8, <1>9, <1>11, <2>1 DEF Own, OwnAmong
    <2> QED
      BY <1>1, <2>2 DEF Inv, AudioInv
  <1>15. ChoiceInv'
    BY <1>11 DEF ChoiceInv
  <1>16. ScanInv'
    <2>1. (scan \in ScanTypes)'
      BY <1>1, UnscannedTyped DEF ScanTypes
    <2> QED
      BY <1>11, <2>1 DEF ScanInv
  <1> QED
    BY <1>12, <1>13, <1>14, <1>15, <1>16 DEF Inv

-----------------------------------------------------------------------------
(* The write.                                                              *)

\* The new records' indices close up with those that are stored.
LEMMA NoGap ==
  ASSUME NEW old \in Nat, NEW new \in Nat, old <= new, new <= old + 2
  PROVE  new - Smaller(new, AuditRetention) <= old /\ Smaller(new, AuditRetention) \in 0..new
  BY HistoryAssumption DEF Smaller

\* After a write the tables hold the history of what was written.
LEMMA WrittenFacts ==
  ASSUME row \in Histories, Sound(row), StoreHolds(row),
         archive \in Seq(Records), shelf \in Seq(Profiles),
         NEW m \in Histories, Sound(m), Extends(m), Written(m)
  PROVE  /\ row' = m /\ archive' \in Seq(Records) /\ shelf' = m.profiles
         /\ DOMAIN archive' = 1..m.total /\ DOMAIN m.profiles = 1..m.baseline
         /\ \A k \in DOMAIN m.audit : m.audit[k] = archive'[m.audit[k].index]
  <1>1. PICK a \in Seq(Records) : a = m.audit
    BY DEF Histories
  <1>2. PICK new \in Nat, old \in Nat : new = m.total /\ old = row.total
    BY DEF Histories
  <1>3. old <= new /\ new <= old + 2
    BY <1>2 DEF Extends
  <1>4. PICK n \in 0..new : n = Len(a) /\ new - n <= old
    <2>1. Len(a) = Smaller(new, AuditRetention)
      BY <1>1, <1>2 DEF Sound
    <2> QED
      BY <1>3, <2>1, NoGap
  <1>5. DOMAIN a = 1..n /\ \A k \in 1..n : a[k] \in Records /\ a[k].index = new - n + k
    <2>1. DOMAIN a = 1..n
      BY <1>4
    <2>2. \A k \in 1..n : a[k] \in Records
      BY <1>4
    <2>3. \A k \in 1..n : a[k].index = new - n + k
      BY <1>1, <1>2, <1>4, <2>1 DEF Sound
    <2> QED
      BY <2>1, <2>2, <2>3
  <1>6. DOMAIN archive = 1..old /\ \A k \in 1..old : archive[k] \in Records
    BY <1>2 DEF StoreHolds
  <1>7. \A k \in 1..n : a[k].index <= old => a[k] = archive[a[k].index]
    BY <1>1, <1>2, <1>5 DEF Extends
  <1>8. archive' = [x \in DOMAIN archive \cup {a[k].index : k \in DOMAIN a} |->
                      IF x \in DOMAIN archive THEN archive[x]
                      ELSE a[CHOOSE k \in DOMAIN a : a[k].index = x]]
    BY <1>1 DEF Written
  <1>9. 1..old \cup {a[k].index : k \in 1..n} = 1..new
    <2>1. ASSUME NEW x \in 1..new PROVE x \in 1..old \cup {a[k].index : k \in 1..n}
      <3>1. CASE x <= old
        BY <1>2, <3>1
      <3>2. CASE ~(x <= old)
        <4>0. n \in Nat /\ n <= new /\ new - n <= old /\ x \in Nat /\ x <= new
          BY <1>4
        <4>4. x - (new - n) \in 1..n
          BY <3>2, <4>0
        <4>1. PICK k \in 1..n : k = x - (new - n)
          BY <4>4
        <4>2. a[k].index = new - n + k /\ x \in Int
          BY <1>5
        <4>3. a[k].index = x
          BY <1>2, <1>4, <4>1, <4>2
        <4> QED
          BY <4>3
      <3> QED
        BY <3>1, <3>2
    <2>2. \A x \in 1..old : x \in 1..new
      BY <1>2, <1>3
    <2>3. \A k \in 1..n : a[k].index \in 1..new
      BY <1>2, <1>4, <1>5
    <2> QED
      BY <2>1, <2>2, <2>3
  <1>10. archive' = [x \in 1..new |-> IF x \in 1..old THEN archive[x]
                                      ELSE a[CHOOSE k \in 1..n : a[k].index = x]]
    <2>1. PICK D : D = DOMAIN archive \cup {a[k].index : k \in DOMAIN a}
      OBVIOUS
    <2>2. D = 1..new
      BY <1>5, <1>6, <1>9, <2>1
    <2>3. archive' = [x \in D |-> IF x \in DOMAIN archive THEN archive[x]
                                 ELSE a[CHOOSE k \in DOMAIN a : a[k].index = x]]
      BY <1>8, <2>1
    <2> QED
      BY <1>5, <1>6, <2>2, <2>3
  <1>11. ASSUME NEW k \in 1..n, ~(a[k].index <= old)
         PROVE  a[CHOOSE j \in 1..n : a[j].index = a[k].index] = a[k]
    <2>1. \A j \in 1..n : a[j].index = a[k].index => j = k
      BY <1>2, <1>4, <1>5
    <2> QED
      BY <2>1
  <1>12. ASSUME NEW k \in 1..n
         PROVE  a[k].index \in 1..new /\ archive'[a[k].index] = a[k]
    <2>1. a[k].index \in 1..new /\ a[k].index \in Nat
      BY <1>2, <1>4, <1>5
    <2>2. CASE a[k].index <= old
      <3>1. a[k].index \in 1..old
        BY <2>1, <2>2
      <3>2. a[k] = archive[a[k].index]
        BY <1>7, <2>2
      <3> QED
        BY <1>7, <1>10, <2>1, <2>2, <3>1, <3>2
    <2>3. CASE ~(a[k].index <= old)
      <3>1. a[k].index \notin 1..old
        BY <2>1, <2>3
      <3> QED
        BY <1>10, <1>11, <2>1, <2>3, <3>1
    <2> QED
      BY <2>2, <2>3
  <1>13. ASSUME NEW x \in 1..new PROVE archive'[x] \in Records
    <2>1. CASE x \in 1..old
      BY <1>6, <1>10, <2>1
    <2>2. CASE x \notin 1..old
      <3>1. PICK k \in 1..n : a[k].index = x
        BY <1>9, <2>2
      <3> QED
        BY <1>5, <1>12, <3>1
    <2> QED
      BY <2>1, <2>2
  <1>14. archive' \in Seq(Records) /\ DOMAIN archive' = 1..new
    <2>1. DOMAIN archive' = 1..new
      BY <1>10
    <2>2. archive' \in [1..new -> Records]
      BY <1>10, <1>13
    <2> QED
      BY <2>1, <2>2
  <1>15. PICK s \in Seq(Profiles) : s = m.profiles
    BY DEF Histories
  <1>16. PICK b \in Nat, c \in Nat : b = m.baseline /\ c = row.baseline /\ c <= b
    BY DEF Histories, Extends
  <1>17. DOMAIN s = 1..b /\ DOMAIN shelf = 1..c /\ \A v \in 1..c : s[v] = shelf[v]
    <2>1. Len(s) = b
      BY <1>15, <1>16 DEF Sound
    <2>2. DOMAIN shelf = 1..c
      BY <1>16 DEF StoreHolds
    <2> QED
      BY <1>15, <1>16, <2>1, <2>2 DEF Extends
  <1>18. shelf' = [v \in DOMAIN shelf \cup DOMAIN s |-> IF v \in DOMAIN shelf THEN shelf[v] ELSE s[v]]
    BY <1>15 DEF Written
  <1>19. shelf' = s
    <2>1. 1..c \cup 1..b = 1..b
      BY <1>16
    <2>2. shelf' = [v \in 1..b |-> s[v]]
      BY <1>17, <1>18, <2>1
    <2>3. s = [v \in 1..b |-> s[v]]
      BY <1>17
    <2> QED
      BY <2>2, <2>3
  <1>20. row' = m
    BY DEF Written
  <1> QED
    BY <1>1, <1>2, <1>5, <1>12, <1>14, <1>15, <1>16, <1>17, <1>19, <1>20

\* The same, as the invariant of the store has it.
LEMMA WrittenStore ==
  ASSUME Inv, ~deleted, NEW m \in Histories, Sound(m), Extends(m), Written(m)
  PROVE  /\ shelf' \in Seq(Profiles) /\ archive' \in Seq(Records)
         /\ \A v \in DOMAIN shelf' : shelf'[v].context = shelf'[v].hashes
         /\ row' = m /\ row' \in Histories /\ Sound(row)' /\ StoreHolds(row)'
  <1>1. /\ row \in Histories /\ Sound(row) /\ StoreHolds(row)
        /\ archive \in Seq(Records) /\ shelf \in Seq(Profiles)
    BY DEF Inv, StoreInv
  <1>2. /\ row' = m /\ archive' \in Seq(Records) /\ shelf' = m.profiles
        /\ DOMAIN archive' = 1..m.total
    BY <1>1, WrittenFacts
  <1>3. DOMAIN m.profiles = 1..m.baseline
    BY <1>1, WrittenFacts
  <1>4. \A k \in DOMAIN m.audit : m.audit[k] = archive'[m.audit[k].index]
    BY <1>1, WrittenFacts
  <1>5. m.profiles \in Seq(Profiles)
    BY DEF Histories
  <1>6. \A v \in DOMAIN shelf' : shelf'[v].context = shelf'[v].hashes
    BY <1>2 DEF Sound
  <1>7. Sound(row)'
    BY <1>2 DEF Sound
  <1>8. StoreHolds(row)'
    BY <1>2, <1>3, <1>4 DEF StoreHolds, Sound
  <1> QED
    BY <1>2, <1>5, <1>6, <1>7, <1>8

LEMMA SaveStep == Inv /\ Save => Inv'
  <1> SUFFICES ASSUME Inv, Save PROVE Inv'
    OBVIOUS
  <1>1. /\ up /\ op.step = "save" /\ ~deleted /\ Written(memory) /\ op' = Idle
        /\ memory' = memory /\ windows' = windows /\ pcm' = pcm /\ scan' = scan
        /\ up' = up /\ dying' = dying /\ deleted' = deleted /\ takes' = takes
    BY DEF Save, audio
  <1>2. op' \in OpTypes /\ Sound(op'.before) /\ op'.step = "idle"
    BY <1>1, IdleTyped
  <1>3. memory \in Histories /\ Sound(memory) /\ Extends(memory)
    BY <1>1 DEF Inv, MemoryInv, StoreInv
  <1>4. /\ shelf' \in Seq(Profiles) /\ archive' \in Seq(Records)
        /\ \A v \in DOMAIN shelf' : shelf'[v].context = shelf'[v].hashes
        /\ row' = memory /\ row' \in Histories /\ Sound(row)' /\ StoreHolds(row)'
    BY <1>1, <1>3, WrittenStore
  <1>5. MemoryInv'
    <2>1. Sound(memory)' /\ Sound(op.before)' /\ (op \in OpTypes)'
      BY <1>1, <1>2, <1>3 DEF Sound, OpTypes
    <2> QED
      BY <1>1, <2>1 DEF Inv, MemoryInv
  <1>6. StoreInv'
    BY <1>1, <1>2, <1>4 DEF StoreInv
  <1>7. AudioInv'
    BY <1>1, <1>2 DEF Inv, AudioInv, Own, OwnAmong
  <1>8. ChoiceInv' /\ ScanInv'
    BY <1>1, <1>2 DEF Inv, ChoiceInv, ScanInv, ScanTypes
  <1> QED
    BY <1>5, <1>6, <1>7, <1>8 DEF Inv

LEMMA SaveTooLateStep == Inv /\ SaveTooLate => Inv'
  <1> SUFFICES ASSUME Inv, SaveTooLate PROVE Inv'
    OBVIOUS
  <1>1. /\ up /\ op.step = "save" /\ deleted /\ op' = Idle
        /\ memory' = memory /\ windows' = windows /\ pcm' = pcm /\ scan' = scan
        /\ up' = up /\ dying' = dying /\ deleted' = deleted /\ takes' = takes
        /\ row' = row /\ archive' = archive /\ shelf' = shelf
    BY DEF SaveTooLate, audio, stored
  <1>2. op' \in OpTypes /\ Sound(op'.before) /\ op'.step = "idle"
    BY <1>1, IdleTyped
  <1>3. MemoryInv'
    <2>1. Sound(memory)' /\ Sound(op.before)' /\ (op \in OpTypes)'
      BY <1>1, <1>2 DEF Inv, MemoryInv, Sound, OpTypes
    <2> QED
      BY <1>1, <2>1 DEF Inv, MemoryInv
  <1>4. StoreInv'
    BY <1>1, <1>2 DEF Inv, StoreInv
  <1>5. AudioInv'
    BY <1>1, <1>2 DEF Inv, AudioInv, Own, OwnAmong
  <1>6. ChoiceInv' /\ ScanInv'
    BY <1>1, <1>2 DEF Inv, ChoiceInv, ScanInv, ScanTypes
  <1> QED
    BY <1>3, <1>4, <1>5, <1>6 DEF Inv

-----------------------------------------------------------------------------
(* Deletion, crash and restart.                                            *)

LEMMA SameScan == ScanInv /\ op' = op /\ scan' = scan => ScanInv'
  <1> SUFFICES ASSUME ScanInv, op' = op, scan' = scan PROVE ScanInv'
    OBVIOUS
  <1>1. (scan \in ScanTypes)'
    BY DEF ScanInv, ScanTypes
  <1>2. ASSUME op'.step = "scan", NEW i \in Instruments
        PROVE  Counted(Starts(i), scan.covered[i], scan.samples[i], scan.qualified[i], scan.windows[i])'
    <2>1. Starts(i)' = Starts(i)
      BY DEF Starts
    <2>2. Counted(Starts(i), scan.covered[i], scan.samples[i], scan.qualified[i], scan.windows[i])
      BY <1>2 DEF ScanInv
    <2>3. Counted(Starts(i)', scan'.covered[i], scan'.samples[i], scan'.qualified[i], scan'.windows[i])
      BY <2>1, <2>2
    <2> QED
      BY <2>3 DEF Counted, LastHeard, LastCounted, Apart, Samples
  <1> QED
    BY <1>1, <1>2 DEF ScanInv

LEMMA DyingStep == Inv /\ (AskDelete \/ DeleteFails) => Inv'
  <1> SUFFICES ASSUME Inv, AskDelete \/ DeleteFails PROVE Inv'
    OBVIOUS
  <1>1. /\ up /\ dying' \in BOOLEAN
        /\ memory' = memory /\ windows' = windows /\ pcm' = pcm /\ op' = op /\ scan' = scan
        /\ row' = row /\ archive' = archive /\ shelf' = shelf
        /\ up' = up /\ deleted' = deleted /\ takes' = takes
    BY DEF AskDelete, DeleteFails, audio, stored
  <1>2. MemoryInv'
    BY <1>1 DEF Inv, MemoryInv, Sound, OpTypes
  <1>3. StoreInv'
    <2>1. ~deleted' => row' \in Histories /\ Sound(row)' /\ StoreHolds(row)'
      BY <1>1 DEF Inv, StoreInv, Sound, StoreHolds
    <2>2. up' /\ ~deleted' /\ op'.step = "save" => op'.before = row' /\ Extends(memory)'
      BY <1>1 DEF Inv, StoreInv, Extends
    <2> QED
      BY <1>1, <2>1, <2>2 DEF Inv, StoreInv
  <1>4. AudioInv'
    BY <1>1 DEF Inv, AudioInv, Own, OwnAmong
  <1>5. ChoiceInv'
    BY <1>1 DEF Inv, ChoiceInv, HeldUnder
  <1>6. ScanInv'
    BY <1>1, SameScan DEF Inv
  <1> QED
    BY <1>2, <1>3, <1>4, <1>5, <1>6 DEF Inv

LEMMA DeleteStep == Inv /\ Delete => Inv'
  <1> SUFFICES ASSUME Inv, Delete PROVE Inv'
    OBVIOUS
  <1>1. /\ up /\ deleted' = TRUE /\ row' = None /\ archive' = <<>>
        /\ memory' = memory /\ windows' = windows /\ pcm' = pcm /\ op' = op /\ scan' = scan
        /\ shelf' = shelf /\ up' = up /\ dying' = dying /\ takes' = takes
    BY DEF Delete, audio
  <1>2. MemoryInv'
    BY <1>1 DEF Inv, MemoryInv, Sound, OpTypes
  <1>3. StoreInv'
    BY <1>1 DEF Inv, StoreInv
  <1>4. AudioInv'
    BY <1>1 DEF Inv, AudioInv, Own, OwnAmong
  <1>5. ChoiceInv'
    BY <1>1 DEF Inv, ChoiceInv, HeldUnder
  <1>6. ScanInv'
    BY <1>1, SameScan DEF Inv
  <1> QED
    BY <1>2, <1>3, <1>4, <1>5, <1>6 DEF Inv

LEMMA CrashStep == Inv /\ Crash => Inv'
  <1> SUFFICES ASSUME Inv, Crash PROVE Inv'
    OBVIOUS
  <1>1. /\ up' = FALSE /\ memory' = Fresh /\ windows' = <<>> /\ pcm' = 0
        /\ op' = Idle /\ scan' = Unscanned /\ dying' = FALSE
        /\ row' = row /\ archive' = archive /\ shelf' = shelf /\ deleted' = deleted /\ takes' = takes
    BY DEF Crash, stored
  <1>2. op' \in OpTypes /\ Sound(op'.before) /\ op'.step = "idle"
    BY <1>1, IdleTyped
  <1>3. MemoryInv'
    <2>1. memory' \in Histories /\ Sound(memory')
      BY <1>1, FreshSound
    <2>2. Sound(memory)' /\ Sound(op.before)' /\ (op \in OpTypes)' /\ op' = Idle
      BY <1>1, <1>2, <2>1 DEF Sound, OpTypes
    <2>3. Idle' = Idle
      BY DEF Idle, Fresh
    <2> QED
      BY <1>1, <2>1, <2>2, <2>3 DEF Inv, MemoryInv
  <1>4. StoreInv'
    <2>1. ~deleted' => row' \in Histories /\ Sound(row)' /\ StoreHolds(row)'
      BY <1>1 DEF Inv, StoreInv, Sound, StoreHolds
    <2> QED
      BY <1>1, <2>1 DEF Inv, StoreInv
  <1>5. AudioInv'
    <2>1. Own(memory)'
      BY <1>1 DEF Own, OwnAmong
    <2>2. windows' \in Seq([id : Nat, take : Nat]) /\ Len(windows') = 0
      BY <1>1
    <2>3. WindowSamples * Len(windows') = 0 /\ 0 <= PcmLimit
      BY <2>2, HistoryAssumption
    <2> QED
      BY <1>1, <1>2, <2>1, <2>2, <2>3 DEF AudioInv
  <1>6. ChoiceInv'
    BY <1>2 DEF ChoiceInv
  <1>7. ScanInv'
    <2>1. (scan \in ScanTypes)'
      BY <1>1, UnscannedTyped DEF ScanTypes
    <2> QED
      BY <1>2, <2>1 DEF ScanInv
  <1> QED
    BY <1>3, <1>4, <1>5, <1>6, <1>7 DEF Inv

LEMMA RestartStep == Inv /\ Restart => Inv'
  <1> SUFFICES ASSUME Inv, Restart PROVE Inv'
    OBVIOUS
  <1>1. /\ ~up /\ ~deleted /\ up' = TRUE
        /\ windows' = windows /\ pcm' = pcm /\ op' = op /\ scan' = scan
        /\ dying' = dying /\ deleted' = deleted /\ takes' = takes
    BY DEF Restart, audio
  <1>2. PICK m : m = IF row.workflow = "stopped" THEN row ELSE [row EXCEPT !.workflow = "restart"]
    OBVIOUS
  <1>3. memory' = m /\ (row.workflow = "stopped" => UNCHANGED stored)
                    /\ (row.workflow # "stopped" => Written(m))
    BY <1>2 DEF Restart
  <1>4. /\ row \in Histories /\ Sound(row) /\ StoreHolds(row) /\ Extends(row)
        /\ shelf \in Seq(Profiles) /\ archive \in Seq(Records)
        /\ \A v \in DOMAIN shelf : shelf[v].context = shelf[v].hashes
    <2>1. /\ row \in Histories /\ Sound(row) /\ StoreHolds(row)
          /\ shelf \in Seq(Profiles) /\ archive \in Seq(Records)
          /\ \A v \in DOMAIN shelf : shelf[v].context = shelf[v].hashes
      BY <1>1 DEF Inv, StoreInv
    <2> QED
      BY <2>1, StoredExtends
  <1>5. op = Idle /\ op.step = "idle" /\ windows = <<>>
    BY <1>1, IdleTyped DEF Inv, MemoryInv, AudioInv
  <1>6. /\ m \in Histories /\ Sound(m) /\ memory' = row'
        /\ shelf' \in Seq(Profiles) /\ archive' \in Seq(Records)
        /\ \A v \in DOMAIN shelf' : shelf'[v].context = shelf'[v].hashes
        /\ row' \in Histories /\ Sound(row)' /\ StoreHolds(row)'
    <2>1. CASE row.workflow = "stopped"
      <3>1. m = row /\ row' = row /\ archive' = archive /\ shelf' = shelf
        BY <1>2, <1>3, <2>1 DEF stored
      <3> QED
        BY <1>3, <1>4, <3>1 DEF Sound, StoreHolds
    <2>2. CASE row.workflow # "stopped"
      <3>1. m = [row EXCEPT !.workflow = "restart"] /\ Written(m)
        BY <1>2, <1>3, <2>2
      <3>2. m \in Histories /\ Sound(m) /\ Extends(m)
        BY <1>4, <3>1, WorkflowChanged
      <3>3. /\ shelf' \in Seq(Profiles) /\ archive' \in Seq(Records)
            /\ \A v \in DOMAIN shelf' : shelf'[v].context = shelf'[v].hashes
            /\ row' = m /\ row' \in Histories /\ Sound(row)' /\ StoreHolds(row)'
        BY <1>1, <3>1, <3>2, WrittenStore
      <3> QED
        BY <1>3, <3>2, <3>3
    <2> QED
      BY <2>1, <2>2
  <1>7. MemoryInv'
    <2>1. Sound(memory)' /\ Sound(op.before)' /\ (op \in OpTypes)'
      BY <1>1, <1>3, <1>6 DEF Inv, MemoryInv, Sound, OpTypes
    <2> QED
      BY <1>1, <1>3, <1>6, <2>1 DEF Inv, MemoryInv
  <1>8. StoreInv'
    BY <1>1, <1>5, <1>6 DEF StoreInv
  <1>9. AudioInv'
    <2>1. Own(memory)'
      BY <1>1, <1>5 DEF Own, OwnAmong
    <2> QED
      BY <1>1, <1>5, <2>1 DEF Inv, AudioInv
  <1>10. ChoiceInv' /\ ScanInv'
    BY <1>1, <1>5 DEF Inv, ChoiceInv, ScanInv, ScanTypes
  <1> QED
    BY <1>7, <1>8, <1>9, <1>10 DEF Inv

-----------------------------------------------------------------------------
(* The invariant.                                                          *)

LEMMA InitInv == Init => Inv
  <1> SUFFICES ASSUME Init PROVE Inv
    OBVIOUS
  <1>1. /\ memory = Fresh /\ row = Fresh /\ archive = <<>> /\ shelf = <<>>
        /\ windows = <<>> /\ pcm = 0 /\ op = Idle /\ scan = Unscanned
        /\ up = TRUE /\ dying = FALSE /\ deleted = FALSE /\ takes = 0
    BY DEF Init
  <1>2. op \in OpTypes /\ Sound(op.before) /\ op.step = "idle"
    BY <1>1, IdleTyped
  <1>3. memory \in Histories /\ Sound(memory) /\ row = memory
    BY <1>1, FreshSound
  <1>4. MemoryInv
    BY <1>1, <1>2, <1>3 DEF MemoryInv
  <1>5. StoreHolds(row)
    <2>1. /\ Fresh.total = 0 /\ Fresh.audit = <<>> /\ Fresh.profiles = <<>> /\ Fresh.baseline = 0
      BY DEF Fresh
    <2>2. Smaller(0, AuditRetention) = 0
      BY HistoryAssumption DEF Smaller
    <2> QED
      BY <1>1, <2>1, <2>2 DEF StoreHolds
  <1>6. StoreInv
    BY <1>1, <1>2, <1>3, <1>5 DEF StoreInv
  <1>7. AudioInv
    <2>1. Own(memory)
      BY <1>1 DEF Own, OwnAmong
    <2>2. windows \in Seq([id : Nat, take : Nat]) /\ Len(windows) = 0
      BY <1>1
    <2>3. WindowSamples * Len(windows) = 0 /\ 0 <= PcmLimit
      BY <2>2, HistoryAssumption
    <2> QED
      BY <1>1, <1>2, <2>1, <2>2, <2>3 DEF AudioInv
  <1>8. ChoiceInv /\ ScanInv
    BY <1>1, <1>2, UnscannedTyped DEF ChoiceInv, ScanInv
  <1> QED
    BY <1>4, <1>6, <1>7, <1>8 DEF Inv

LEMMA StutterStep == Inv /\ UNCHANGED vars => Inv'
  <1> SUFFICES ASSUME Inv, UNCHANGED vars PROVE Inv'
    OBVIOUS
  <1>1. /\ memory' = memory /\ windows' = windows /\ pcm' = pcm /\ op' = op /\ scan' = scan
        /\ row' = row /\ archive' = archive /\ shelf' = shelf
        /\ up' = up /\ dying' = dying /\ deleted' = deleted /\ takes' = takes
    BY DEF vars
  <1>2. MemoryInv'
    BY <1>1 DEF Inv, MemoryInv, Sound, OpTypes
  <1>3. StoreInv'
    <2>1. ~deleted' => row' \in Histories /\ Sound(row)' /\ StoreHolds(row)'
      BY <1>1 DEF Inv, StoreInv, Sound, StoreHolds
    <2>2. up' /\ ~deleted' /\ op'.step = "save" => op'.before = row' /\ Extends(memory)'
      BY <1>1 DEF Inv, StoreInv, Extends
    <2> QED
      BY <1>1, <2>1, <2>2 DEF Inv, StoreInv
  <1>4. AudioInv'
    BY <1>1 DEF Inv, AudioInv, Own, OwnAmong
  <1>5. ChoiceInv'
    BY <1>1 DEF Inv, ChoiceInv, HeldUnder
  <1>6. ScanInv'
    BY <1>1, SameScan DEF Inv
  <1> QED
    BY <1>2, <1>3, <1>4, <1>5, <1>6 DEF Inv

LEMMA Invariant == Spec => []Inv
  <1>1. Inv /\ [Next]_vars => Inv'
    <2> SUFFICES ASSUME Inv, [Next]_vars PROVE Inv'
      OBVIOUS
    <2>1. CASE Adjust
      BY <2>1, AdjustStep
    <2>2. CASE StartLive
      BY <2>2, StartLiveStep
    <2>3. CASE Pause \/ Resume \/ Stop
      BY <2>3, WorkflowStep
    <2>4. CASE ObserveLive
      BY <2>4, ObserveLiveStep
    <2>5. CASE ObserveRehearsal
      BY <2>5, ObserveRehearsalStep
    <2>6. CASE Accept
      BY <2>6, AcceptStep
    <2>7. CASE ScanFrame
      BY <2>7, ScanFrameStep
    <2>8. CASE Reject \/ SaveFails
      <3>1. /\ up /\ op.step \in {"scan", "save"} /\ RollBack
            /\ UNCHANGED <<audio, up, dying, deleted, takes, stored>>
        BY <2>8 DEF Reject, SaveFails
      <3> QED
        BY <3>1, RollBackStep
    <2>9. CASE Accepted
      BY <2>9, AcceptedStep
    <2>10. CASE Save
      BY <2>10, SaveStep
    <2>11. CASE SaveTooLate
      BY <2>11, SaveTooLateStep
    <2>12. CASE AskDelete \/ DeleteFails
      BY <2>12, DyingStep
    <2>13. CASE Delete
      BY <2>13, DeleteStep
    <2>14. CASE Crash
      BY <2>14, CrashStep
    <2>15. CASE Restart
      BY <2>15, RestartStep
    <2>16. CASE UNCHANGED vars
      BY <2>16, StutterStep
    <2> QED
      BY <2>1, <2>2, <2>3, <2>4, <2>5, <2>6, <2>7, <2>8, <2>9, <2>10, <2>11, <2>12, <2>13, <2>14,
         <2>15, <2>16 DEF Next
  <1> QED
    BY InitInv, <1>1, PTL DEF Spec

-----------------------------------------------------------------------------
(* The theorems.                                                           *)

\* Every variable keeps its type.
THEOREM TypesKept == Spec => []TypeOK
  <1>1. Inv => TypeOK
    BY DEF Inv, MemoryInv, StoreInv, AudioInv, ScanInv, OpTypes, ScanTypes, TypeOK
  <1> QED
    BY Invariant, <1>1, PTL

\* Whatever is rolled back, crashes or is restarted: between operations memory
\* is what is stored, and the archive is the whole of a gapless history
\* (_persisted, CommandHandler.handle, restore_state, from_state).
THEOREM StoredHistory == Spec => []MemoryIsStored
  <1>1. Inv => MemoryIsStored
    <2> SUFFICES ASSUME Inv, up, op.step # "save", ~deleted PROVE StoreHolds(memory)
      BY DEF MemoryIsStored
    <2>1. memory = row /\ StoreHolds(row)
      BY DEF Inv, StoreInv
    <2> QED
      BY <2>1
  <1> QED
    BY Invariant, <1>1, PTL

\* No write contradicts a stored audit record or baseline, whatever numbers were
\* given before to changes that were rolled back (_persist_audit,
\* _persist_baseline, BaselineStore.save).
THEOREM NothingContradicted == Spec => []NeverContradicts
  <1>1. Inv => NeverContradicts
    <2> SUFFICES ASSUME Inv PROVE NeverContradicts
      OBVIOUS
    <2>1. ASSUME op.step = "save", ~deleted PROVE Agrees(memory)
      <3>1. up
        BY <2>1, IdleTyped DEF Inv, MemoryInv
      <3>2. /\ Extends(memory) /\ StoreHolds(row) /\ row \in Histories
            /\ memory \in Histories /\ Sound(memory)
        BY <2>1, <3>1 DEF Inv, StoreInv, MemoryInv
      <3>3. /\ DOMAIN archive = 1..row.total /\ DOMAIN shelf = 1..row.baseline
            /\ row.total \in Nat /\ row.baseline \in Nat
        BY <3>2 DEF StoreHolds, Histories
      <3>4. \A v \in DOMAIN memory.profiles \cap DOMAIN shelf : memory.profiles[v] = shelf[v]
        BY <3>2, <3>3 DEF Extends
      <3>5. \A k \in DOMAIN memory.audit :
              memory.audit[k].index \in DOMAIN archive => archive[memory.audit[k].index] = memory.audit[k]
        BY <3>2, <3>3 DEF Extends
      <3> QED
        BY <3>4, <3>5 DEF Agrees
    <2>2. memory.baseline + 1 \notin DOMAIN memory.profiles
      <3>1. PICK s \in Seq(Profiles) : s = memory.profiles
        BY DEF Inv, MemoryInv, Histories
      <3>2. Len(s) = memory.baseline
        BY <3>1 DEF Inv, MemoryInv, Sound
      <3>3. Len(s) + 1 \notin DOMAIN s
        OBVIOUS
      <3> QED
        BY <3>1, <3>2, <3>3
    <2> QED
      BY <2>1, <2>2 DEF NeverContradicts
  <1> QED
    BY Invariant, <1>1, PTL

\* Memory and tables hold one history, whatever fails (_persisted, handle, restore_state).
THEOREM OneHistoryAlways == Spec => []OneHistory
  BY StoredHistory, NothingContradicted, PTL DEF OneHistory

\* The context of every baseline was prepared of the audio its hashes name
\* (observe_window, _accept_baseline).
THEOREM ContextOfItsAudio == Spec => []ContextIsOfItsAudio
  <1>1. Inv => ContextIsOfItsAudio
    BY DEF Inv, MemoryInv, StoreInv, Sound, ContextIsOfItsAudio
  <1> QED
    BY Invariant, <1>1, PTL

\* The counts of a scan are what they are called, for windows of any length
\* that overlap in any way (build_baseline_profile).
THEOREM ExactCoverage == Spec => []CoverageIsExact
  <1>1. Inv => CoverageIsExact
    <2> SUFFICES ASSUME Inv, op.step = "scan", NEW i \in Instruments
                 PROVE  /\ scan.samples[i] = Cardinality(UNION {Samples(a) : a \in Starts(i)})
                        /\ \E S \in SUBSET Starts(i) : Apart(S) /\ Cardinality(S) = scan.windows[i]
                        /\ \A S \in SUBSET Starts(i) : Apart(S) => Cardinality(S) <= scan.windows[i]
      BY DEF CoverageIsExact
    <2>1. Counted(Starts(i), scan.covered[i], scan.samples[i], scan.qualified[i], scan.windows[i])
      BY DEF Inv, ScanInv
    <2> QED
      BY <2>1 DEF Counted, LastCounted
  <1> QED
    BY Invariant, <1>1, PTL

\* The audio kept stays within its limit and the loop that drops it ends, for
\* any window and limit, though the count is not rolled back (observe_window).
THEOREM EvictionAlwaysEnds == Spec => []EvictionEnds
  <1>1. Inv => EvictionEnds
    <2> SUFFICES ASSUME Inv PROVE EvictionEnds
      OBVIOUS
    <2>1. /\ windows \in Seq(Entries) /\ pcm \in Nat /\ pcm <= PcmLimit
          /\ WindowSamples * Len(windows) <= pcm
      BY DEF Inv, AudioInv, Entries
    <2>2. memory.sequence + 1 \in Nat /\ takes \in Nat
      BY DEF Inv, MemoryInv, Histories
    <2>3. Excess(pcm + WindowSamples) <= Len(Held(memory.sequence + 1, takes))
      BY <2>1, <2>2, EvictionFacts
    <2>4. WindowSamples * Len(windows) <= PcmLimit
      <3>1. WindowSamples * Len(windows) \in Nat
        BY <2>1, HistoryAssumption
      <3>2. PICK x \in Nat : x = WindowSamples * Len(windows)
        BY <3>1
      <3> QED
        BY <2>1, <3>2, HistoryAssumption
    <2> QED
      BY <2>3, <2>4 DEF EvictionEnds
  <1> QED
    BY Invariant, <1>1, PTL
=============================================================================
