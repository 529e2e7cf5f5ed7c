------------------------ MODULE ReferenceJobsProofs ------------------------
(***************************************************************************)
(* What memory and the store hold of songs, jobs and references, for any   *)
(* number of songs, jobs, failed saves and crashes.  Each handler and each *)
(* step of a job keeps a good store good (Good) and takes nothing away     *)
(* (Extends); the store is behind memory; a thread past the building has   *)
(* left its reference in memory, and the browser names what is stored.     *)
(***************************************************************************)
EXTENDS ReferenceJobs, TLAPS

Statuses == {"queued", "running", "completed", "failed"}
SongRecord == [pending : Nat, selected : Nat]
JobRecord == [song : Nat, status : Statuses]
Store == [projects : Nat, songs : Seq(SongRecord), assets : Nat, jobs : Seq(JobRecord),
          references : SUBSET Nat]

\* Every number names something, a selection has its reference, a completed job too.
GoodSong(m, s) ==
  /\ m.songs[s].pending \in 0..Len(m.jobs)
  /\ m.songs[s].selected # 0 => /\ m.songs[s].selected \in m.references
                                /\ m.jobs[m.songs[s].selected].song = s

GoodJob(m, j) ==
  /\ m.jobs[j].song \in 1..Len(m.songs)
  /\ m.jobs[j].status = "completed" => j \in m.references

Good(m) ==
  /\ m \in Store
  /\ m.references \subseteq 1..Len(m.jobs)
  /\ \A s \in 1..Len(m.songs) : GoodSong(m, s)
  /\ \A j \in 1..Len(m.jobs) : GoodJob(m, j)

\* n has all that m has.
Extends(m, n) ==
  /\ Len(m.songs) <= Len(n.songs) /\ Len(m.jobs) <= Len(n.jobs)
  /\ m.references \subseteq n.references

-----------------------------------------------------------------------------
(* What the handlers and the jobs do to a store.                           *)

\* Changing an element of a sequence.
LEMMA ElementChanged ==
  ASSUME NEW S, NEW q \in Seq(S), NEW i \in 1..Len(q), NEW v \in S
  PROVE  /\ [q EXCEPT ![i] = v] \in Seq(S)
         /\ Len([q EXCEPT ![i] = v]) = Len(q)
         /\ \A k \in 1..Len(q) : [q EXCEPT ![i] = v][k] = IF k = i THEN v ELSE q[k]
  OBVIOUS

\* Adding an element to a sequence.
LEMMA ElementAdded ==
  ASSUME NEW S, NEW q \in Seq(S), NEW v \in S
  PROVE  /\ Append(q, v) \in Seq(S) /\ Len(Append(q, v)) = Len(q) + 1 /\ Len(q) \in Nat
         /\ Append(q, v)[Len(q) + 1] = v
         /\ \A k \in 1..Len(q) : Append(q, v)[k] = q[k]
  OBVIOUS

\* A sequence of what each of its elements is.
LEMMA ElementsDecide ==
  ASSUME NEW S, NEW T, NEW q \in Seq(S), \A i \in 1..Len(q) : q[i] \in T
  PROVE  q \in Seq(T)
  OBVIOUS

LEMMA EmptyIsGood == Good(Empty)
  BY DEF Good, Empty, Store

LEMMA ProjectIsGood ==
  ASSUME NEW m, Good(m)
  PROVE  LET n == [m EXCEPT !.projects = @ + 1] IN Good(n) /\ Extends(m, n)
  BY DEF Good, Store, GoodSong, GoodJob, Extends

LEMMA AssetIsGood ==
  ASSUME NEW m, Good(m)
  PROVE  LET n == [m EXCEPT !.assets = @ + 1] IN Good(n) /\ Extends(m, n)
  BY DEF Good, Store, GoodSong, GoodJob, Extends

LEMMA SongIsGood ==
  ASSUME NEW m, Good(m)
  PROVE  LET n == [m EXCEPT !.songs = Append(@, [pending |-> 0, selected |-> 0])]
         IN  Good(n) /\ Extends(m, n) /\ Len(n.songs) >= 1
  <1>. DEFINE song == [pending |-> 0, selected |-> 0]
              n == [m EXCEPT !.songs = Append(@, song)]
  <1>1. m \in Store /\ song \in SongRecord
    BY DEF Good, SongRecord
  <1>2. /\ n.songs = Append(m.songs, song) /\ n.jobs = m.jobs
        /\ n.references = m.references /\ n.projects = m.projects /\ n.assets = m.assets
    BY <1>1 DEF Store
  <1>3. /\ n.songs \in Seq(SongRecord) /\ Len(n.songs) = Len(m.songs) + 1 /\ Len(m.songs) \in Nat
        /\ n.songs[Len(m.songs) + 1] = song
        /\ \A k \in 1..Len(m.songs) : n.songs[k] = m.songs[k]
    BY <1>1, <1>2, ElementAdded DEF Store
  <1>4. n \in Store
    BY <1>1, <1>2, <1>3 DEF Store
  <1>. HIDE DEF n
  <1>5. Len(m.jobs) \in Nat
    BY <1>1 DEF Store
  <1>6. ASSUME NEW s \in 1..Len(n.songs) PROVE GoodSong(n, s)
    <2>1. CASE s \in 1..Len(m.songs)
      BY <1>2, <1>3, <2>1 DEF Good, GoodSong
    <2>2. CASE s = Len(m.songs) + 1
      BY <1>2, <1>3, <1>5, <2>2 DEF GoodSong
    <2>. QED
      BY <1>3, <2>1, <2>2
  <1>7. ASSUME NEW j \in 1..Len(n.jobs) PROVE GoodJob(n, j)
    BY <1>2, <1>3 DEF Good, GoodJob
  <1>8. Good(n) /\ Extends(m, n) /\ Len(n.songs) >= 1
    BY <1>2, <1>3, <1>4, <1>5, <1>6, <1>7 DEF Good, Extends
  <1>. QED
    BY <1>8 DEF n

LEMMA JobIsGood ==
  ASSUME NEW m, Good(m), NEW song \in 1..Len(m.songs)
  PROVE  LET n == [m EXCEPT !.jobs = Append(@, [song |-> song, status |-> "queued"]),
                            !.songs[song].pending = Len(m.jobs) + 1]
         IN  Good(n) /\ Extends(m, n) /\ Len(n.jobs) >= 1
  <1>. DEFINE job == [song |-> song, status |-> "queued"]
              waiting == [m.songs[song] EXCEPT !.pending = Len(m.jobs) + 1]
              n == [m EXCEPT !.jobs = Append(@, job),
                             !.songs[song].pending = Len(m.jobs) + 1]
  <1>1. /\ m \in Store /\ Len(m.jobs) \in Nat /\ Len(m.songs) \in Nat
        /\ m.songs[song] \in SongRecord
    BY DEF Good, Store
  <1>2. /\ job \in JobRecord /\ waiting \in SongRecord
        /\ waiting.pending = Len(m.jobs) + 1 /\ waiting.selected = m.songs[song].selected
    BY <1>1 DEF JobRecord, SongRecord, Statuses
  <1>3. /\ n.songs = [m.songs EXCEPT ![song] = waiting] /\ n.jobs = Append(m.jobs, job)
        /\ n.references = m.references /\ n.projects = m.projects /\ n.assets = m.assets
    BY <1>1 DEF Store
  <1>. HIDE DEF n, waiting, job
  <1>4. /\ n.songs \in Seq(SongRecord) /\ Len(n.songs) = Len(m.songs)
        /\ \A k \in 1..Len(m.songs) : n.songs[k] = IF k = song THEN waiting ELSE m.songs[k]
    BY <1>1, <1>2, <1>3, ElementChanged DEF Store
  <1>5. /\ n.jobs \in Seq(JobRecord) /\ Len(n.jobs) = Len(m.jobs) + 1
        /\ n.jobs[Len(m.jobs) + 1] = job
        /\ \A k \in 1..Len(m.jobs) : n.jobs[k] = m.jobs[k]
    BY <1>1, <1>2, <1>3, ElementAdded DEF Store
  <1>6. n \in Store
    BY <1>1, <1>3, <1>4, <1>5 DEF Store, n
  <1>7. ASSUME NEW s \in 1..Len(n.songs) PROVE GoodSong(n, s)
    <2>1. /\ GoodSong(m, s) /\ m.references \subseteq 1..Len(m.jobs)
          /\ n.songs[s].selected = m.songs[s].selected
          /\ n.songs[s].pending \in {m.songs[s].pending, Len(m.jobs) + 1}
      BY <1>2, <1>4 DEF Good
    <2>2. m.songs[s].selected # 0 =>
            n.jobs[m.songs[s].selected] = m.jobs[m.songs[s].selected]
      BY <1>5, <2>1 DEF GoodSong
    <2>. QED
      BY <1>1, <1>3, <1>5, <2>1, <2>2, SMTT(20) DEF GoodSong
  <1>8. ASSUME NEW j \in 1..Len(n.jobs) PROVE GoodJob(n, j)
    <2>1. CASE j \in 1..Len(m.jobs)
      BY <1>3, <1>4, <1>5, <2>1 DEF Good, GoodJob
    <2>2. CASE j = Len(m.jobs) + 1
      BY <1>3, <1>4, <1>5, <2>2 DEF GoodJob, job
    <2>. QED
      BY <1>1, <1>5, <2>1, <2>2
  <1>9. n.references \subseteq 1..Len(n.jobs)
    BY <1>1, <1>3, <1>5 DEF Good
  <1>10. Good(n) /\ Extends(m, n) /\ Len(n.jobs) >= 1
    BY <1>1, <1>3, <1>4, <1>5, <1>6, <1>7, <1>8, <1>9 DEF Good, Extends
  <1>. QED
    BY <1>10 DEF n, job

\* A job is completed only when its reference is there.
LEMMA StatusIsGood ==
  ASSUME NEW m, Good(m), NEW j \in 1..Len(m.jobs), NEW status \in Statuses,
         status = "completed" => j \in m.references
  PROVE  Good(Status(m, j, status)) /\ Extends(m, Status(m, j, status))
  <1>. DEFINE n == Status(m, j, status)
              job == [m.jobs[j] EXCEPT !.status = status]
  <1>1. /\ m \in Store /\ Len(m.jobs) \in Nat /\ Len(m.songs) \in Nat
        /\ m.jobs[j] \in JobRecord
    BY DEF Good, Store
  <1>2. job \in JobRecord /\ job.song = m.jobs[j].song /\ job.status = status
    BY <1>1 DEF JobRecord
  <1>3. /\ n.jobs = [m.jobs EXCEPT ![j] = job] /\ n.songs = m.songs
        /\ n.references = m.references /\ n.projects = m.projects /\ n.assets = m.assets
    BY <1>1 DEF Store, Status
  <1>. HIDE DEF n, job
  <1>4. /\ n.jobs \in Seq(JobRecord) /\ Len(n.jobs) = Len(m.jobs)
        /\ \A k \in 1..Len(m.jobs) : n.jobs[k] = IF k = j THEN job ELSE m.jobs[k]
    BY <1>1, <1>2, <1>3, ElementChanged DEF Store
  <1>5. n \in Store
    BY <1>1, <1>3, <1>4 DEF Store, Status, n
  <1>6. \A k \in 1..Len(m.jobs) : n.jobs[k].song = m.jobs[k].song
    BY <1>2, <1>4
  <1>7. ASSUME NEW s \in 1..Len(n.songs) PROVE GoodSong(n, s)
    <2>1. GoodSong(m, s) /\ m.references \subseteq 1..Len(m.jobs)
      BY <1>3 DEF Good
    <2>. QED
      BY <1>3, <1>4, <1>6, <2>1 DEF GoodSong
  <1>8. ASSUME NEW k \in 1..Len(n.jobs) PROVE GoodJob(n, k)
    BY <1>2, <1>3, <1>4 DEF Good, GoodJob
  <1>9. Good(n) /\ Extends(m, n)
    BY <1>1, <1>3, <1>4, <1>5, <1>7, <1>8 DEF Good, Extends
  <1>. QED
    BY <1>9 DEF n

LEMMA ReferenceIsGood ==
  ASSUME NEW m, Good(m), NEW j \in 1..Len(m.jobs)
  PROVE  LET n == [m EXCEPT !.references = @ \cup {j}]
         IN  Good(n) /\ Extends(m, n) /\ j \in n.references
  <1>. DEFINE n == [m EXCEPT !.references = @ \cup {j}]
  <1>1. m \in Store /\ Len(m.jobs) \in Nat /\ Len(m.songs) \in Nat
    BY DEF Good, Store
  <1>2. /\ n.jobs = m.jobs /\ n.songs = m.songs /\ n.references = m.references \cup {j}
        /\ n \in Store
    BY <1>1 DEF Store
  <1>. HIDE DEF n
  <1>3. Good(n) /\ Extends(m, n) /\ j \in n.references
    BY <1>1, <1>2 DEF Good, GoodSong, GoodJob, Extends
  <1>. QED
    BY <1>3 DEF n

\* A song selects a reference that is there, of a job of its own.
LEMMA ChoiceIsGood ==
  ASSUME NEW m, Good(m), NEW j \in m.references
  PROVE  LET n == [m EXCEPT !.songs[m.jobs[j].song].selected = j]
         IN  Good(n) /\ Extends(m, n)
  <1>. DEFINE song == m.jobs[j].song
              chosen == [m.songs[song] EXCEPT !.selected = j]
              n == [m EXCEPT !.songs[m.jobs[j].song].selected = j]
  <1>1. /\ m \in Store /\ Len(m.jobs) \in Nat /\ Len(m.songs) \in Nat
        /\ j \in 1..Len(m.jobs) /\ j \in Nat
    BY DEF Good, Store
  <1>2. song \in 1..Len(m.songs) /\ m.songs[song] \in SongRecord
    BY <1>1 DEF Good, GoodJob, Store
  <1>3. /\ chosen \in SongRecord /\ chosen.pending = m.songs[song].pending
        /\ chosen.selected = j
    BY <1>1, <1>2 DEF SongRecord
  <1>4. /\ n.songs = [m.songs EXCEPT ![song] = chosen] /\ n.jobs = m.jobs
        /\ n.references = m.references /\ n.projects = m.projects /\ n.assets = m.assets
    BY <1>1 DEF Store
  <1>. HIDE DEF n, chosen
  <1>5. /\ n.songs \in Seq(SongRecord) /\ Len(n.songs) = Len(m.songs)
        /\ \A k \in 1..Len(m.songs) : n.songs[k] = IF k = song THEN chosen ELSE m.songs[k]
    BY <1>1, <1>2, <1>3, <1>4, ElementChanged DEF Store
  <1>6. n \in Store
    BY <1>1, <1>4, <1>5 DEF Store, n
  <1>7. ASSUME NEW s \in 1..Len(n.songs) PROVE GoodSong(n, s)
    <2>1. GoodSong(m, s) /\ GoodSong(m, song)
      BY <1>2, <1>5 DEF Good
    <2>2. CASE s = song
      BY <1>2, <1>3, <1>4, <1>5, <2>1, <2>2 DEF GoodSong
    <2>3. CASE s # song
      BY <1>4, <1>5, <2>1, <2>3 DEF GoodSong
    <2>. QED
      BY <2>2, <2>3
  <1>8. ASSUME NEW k \in 1..Len(n.jobs) PROVE GoodJob(n, k)
    BY <1>4, <1>5 DEF Good, GoodJob
  <1>9. Good(n) /\ Extends(m, n)
    BY <1>1, <1>4, <1>5, <1>6, <1>7, <1>8 DEF Good, Extends
  <1>. QED
    BY <1>9 DEF n

LEMMA InterruptedIsGood ==
  ASSUME NEW m, Good(m)
  PROVE  Good(Interrupted(m)) /\ Extends(m, Interrupted(m))
  <1>. DEFINE n == Interrupted(m)
              left(j) == IF Active(m.jobs[j]) THEN [m.jobs[j] EXCEPT !.status = "failed"]
                         ELSE m.jobs[j]
  <1>1. /\ m \in Store /\ Len(m.jobs) \in Nat /\ Len(m.songs) \in Nat
        /\ DOMAIN m.jobs = 1..Len(m.jobs)
        /\ \A j \in 1..Len(m.jobs) : m.jobs[j] \in JobRecord
    BY DEF Good, Store
  <1>2. \A j \in 1..Len(m.jobs) :
          /\ left(j) \in JobRecord /\ left(j).song = m.jobs[j].song
          /\ left(j).status = "completed" => m.jobs[j].status = "completed"
    BY <1>1 DEF JobRecord, Statuses
  <1>3. /\ n.jobs = [j \in 1..Len(m.jobs) |-> left(j)] /\ n.songs = m.songs
        /\ n.references = m.references /\ n.projects = m.projects /\ n.assets = m.assets
    BY <1>1 DEF Store, Interrupted
  <1>. HIDE DEF n, left
  <1>4. /\ n.jobs \in Seq(JobRecord) /\ Len(n.jobs) = Len(m.jobs)
        /\ \A k \in 1..Len(m.jobs) : n.jobs[k] = left(k)
    BY <1>1, <1>2, <1>3
  <1>5. n \in Store
    BY <1>1, <1>3, <1>4 DEF Store, Interrupted, n
  <1>6. ASSUME NEW s \in 1..Len(n.songs) PROVE GoodSong(n, s)
    <2>1. GoodSong(m, s) /\ m.references \subseteq 1..Len(m.jobs)
      BY <1>3 DEF Good
    <2>. QED
      BY <1>2, <1>3, <1>4, <2>1, SMTT(20) DEF GoodSong
  <1>7. ASSUME NEW k \in 1..Len(n.jobs) PROVE GoodJob(n, k)
    BY <1>2, <1>3, <1>4 DEF Good, GoodJob
  <1>8. Good(n) /\ Extends(m, n)
    BY <1>1, <1>3, <1>4, <1>5, <1>6, <1>7 DEF Good, Extends
  <1>. QED
    BY <1>8 DEF n

-----------------------------------------------------------------------------
(* The invariant.                                                          *)

Stages == {"home", "project", "song", "upload", "start", "wait", "session", "listening",
           "prepare", "await", "ready", "anew", "failed"}
Steps == {"none", "scheduled", "begun", "building", "built", "kept", "choosing",
          "completing", "ending"}
Session == [song : Nat, reference : Nat]
Asked == {"project", "song", "upload", "start", "prepare", "session", "anew"}

\* The store is behind memory.
Stores == Good(mem) /\ Good(disk) /\ Extends(disk, mem)

\* A thread has a job, and past the building its reference.
Threads ==
  /\ runs \in [1..MaxJobs -> Steps]
  /\ \A j \in 1..MaxJobs :
       /\ runs[j] # "none" => j \in 1..Len(mem.jobs)
       /\ runs[j] \in {"kept", "choosing", "completing"} => j \in mem.references

\* What the browser names is stored; what it waits for is in memory.
Browser ==
  /\ client \in [stage : Stages, saving : BOOLEAN, song : Nat, job : Nat,
                 listening : Session]
  /\ client.song <= Len(disk.songs)
  /\ client.saving => client.stage \in Asked
  /\ client.stage \notin {"home", "project", "song", "listening", "failed"} => client.song >= 1
  /\ client.saving /\ client.stage = "song" => Len(mem.songs) >= 1
  /\ client.saving /\ client.stage \in {"start", "prepare"} => Len(mem.jobs) >= 1
  /\ client.saving /\ client.stage \in {"session", "anew"} => client.job \in mem.references
  /\ client.listening \in sessions \cup {Nowhere}
  /\ client.stage = "listening" => client.listening \in sessions

Stored ==
  \A x \in sessions : /\ x \in Session /\ x.song \in 1..Len(disk.songs)
                      /\ x.reference \in disk.references

\* While the service is down nothing of it runs.
Down ==
  /\ service \in {"up", "down"}
  /\ service = "down" => ~client.saving /\ \A j \in 1..MaxJobs : runs[j] = "none"

Inv == Stores /\ Threads /\ Browser /\ Stored /\ Down

LEMMA LengthsAreNumbers ==
  ASSUME NEW m, Good(m)
  PROVE  Len(m.songs) \in Nat /\ Len(m.jobs) \in Nat
  BY DEF Good, Store

LEMMA ExtendsItself ==
  ASSUME NEW m, Good(m) PROVE Extends(m, m)
  BY LengthsAreNumbers DEF Extends

LEMMA ExtendsThrough ==
  ASSUME NEW l, NEW m, NEW n, Good(l), Good(m), Good(n), Extends(l, m), Extends(m, n)
  PROVE  Extends(l, n)
  BY LengthsAreNumbers DEF Extends

\* What stays true when memory, the store or the sessions only gain.
LEMMA ThreadsKept ==
  ASSUME Threads, Good(mem), Good(mem'), Extends(mem, mem'), runs' = runs
  PROVE  Threads'
  <1>1. Len(mem.jobs) \in Nat /\ Len(mem'.jobs) \in Nat
    BY LengthsAreNumbers
  <1>. QED
    BY <1>1 DEF Threads, Extends

LEMMA BrowserKept ==
  ASSUME Browser, Good(mem), Good(mem'), Good(disk), Good(disk'),
         Extends(mem, mem'), Extends(disk, disk'), sessions \subseteq sessions',
         client' = client
  PROVE  Browser'
  <1>1. /\ Len(mem.jobs) \in Nat /\ Len(mem'.jobs) \in Nat
        /\ Len(mem.songs) \in Nat /\ Len(mem'.songs) \in Nat
        /\ Len(disk.songs) \in Nat /\ Len(disk'.songs) \in Nat
    BY LengthsAreNumbers
  <1>2. client.song \in Nat
    BY DEF Browser
  <1>. QED
    BY <1>1, <1>2 DEF Browser, Extends

LEMMA StoredKept ==
  ASSUME Stored, Good(disk), Good(disk'), Extends(disk, disk'), sessions' = sessions
  PROVE  Stored'
  <1>1. Len(disk.songs) \in Nat /\ Len(disk'.songs) \in Nat
    BY LengthsAreNumbers
  <1>. QED
    BY <1>1 DEF Stored, Extends

LEMMA InitInv == Init => Inv
  <1>. SUFFICES ASSUME Init PROVE Inv
    OBVIOUS
  <1>1. Stores
    BY EmptyIsGood, ExtendsItself DEF Init, Stores
  <1>2. Threads
    BY DEF Init, Threads, Steps
  <1>3. Browser
    BY DEF Init, Browser, Stages, Session, Nowhere, Empty
  <1>4. Stored /\ Down
    BY DEF Init, Stored, Down
  <1>. QED
    BY <1>1, <1>2, <1>3, <1>4 DEF Inv

-----------------------------------------------------------------------------
(* The handlers.                                                           *)

LEMMA EnteredInv ==
  ASSUME Inv, service = "up", NEW m, Good(m), Extends(mem, m), Entered(m),
         client.stage \in Asked,
         client.stage = "song" => Len(m.songs) >= 1,
         client.stage \in {"start", "prepare"} => Len(m.jobs) >= 1,
         client.stage \in {"session", "anew"} => client.job \in m.references
  PROVE  Inv'
  <1>1. mem' = m /\ disk' = disk /\ sessions' = sessions /\ runs' = runs /\ service' = service
    BY DEF Entered
  <1>2. Stores'
    BY <1>1, ExtendsThrough DEF Inv, Stores, Good, Extends
  <1>3. Threads'
    BY <1>1, ThreadsKept DEF Inv, Stores
  <1>4. Browser'
    BY <1>1 DEF Entered, Inv, Browser
  <1>5. Stored' /\ Down'
    BY <1>1 DEF Inv, Stored, Down
  <1>. QED
    BY <1>2, <1>3, <1>4, <1>5 DEF Inv

LEMMA RefusedInv == Inv /\ Refused => Inv'
  <1>. SUFFICES ASSUME Inv, Refused PROVE Inv'
    OBVIOUS
  <1>1. /\ mem' = mem /\ disk' = disk /\ sessions' = sessions /\ runs' = runs
        /\ service' = service
    BY DEF Refused
  <1>2. Stores' /\ Threads' /\ Stored'
    BY <1>1 DEF Inv, Stores, Good, GoodSong, GoodJob, Extends, Threads, Stored
  <1>3. Browser'
    BY <1>1 DEF Refused, Inv, Browser, Stages
  <1>4. Down'
    BY <1>1 DEF Refused, Inv, Browser, Down
  <1>. QED
    BY <1>2, <1>3, <1>4 DEF Inv

LEMMA SetupInv == Inv /\ (CreateProject \/ CreateSong \/ UploadAudio) => Inv'
  <1>. SUFFICES ASSUME Inv, CreateProject \/ CreateSong \/ UploadAudio PROVE Inv'
    OBVIOUS
  <1>. USE DEF Asking, Asked
  <1>1. Good(mem)
    BY DEF Inv, Stores
  <1>2. CASE CreateProject
    BY <1>1, <1>2, ProjectIsGood, EnteredInv DEF CreateProject
  <1>3. CASE CreateSong
    <2>1. CASE Unavailable
      BY <2>1, RefusedInv DEF Unavailable
    <2>2. CASE Entered([mem EXCEPT !.songs = Append(@, [pending |-> 0, selected |-> 0])])
      BY <1>1, <1>3, <2>2, SongIsGood, EnteredInv DEF CreateSong
    <2>. QED
      BY <1>3, <2>1, <2>2 DEF CreateSong
  <1>4. CASE UploadAudio
    <2>1. CASE Refused
      BY <2>1, RefusedInv
    <2>2. CASE Entered([mem EXCEPT !.assets = @ + 1])
      BY <1>1, <1>4, <2>2, AssetIsGood, EnteredInv DEF UploadAudio
    <2>. QED
      BY <1>4, <2>1, <2>2 DEF UploadAudio
  <1>. QED
    BY <1>2, <1>3, <1>4

LEMMA StartJobInv == Inv /\ StartJob => Inv'
  <1>. SUFFICES ASSUME Inv, StartJob PROVE Inv'
    OBVIOUS
  <1>. DEFINE n == [mem EXCEPT !.jobs = Append(@, [song |-> client.song, status |-> "queued"]),
                               !.songs[client.song].pending = Len(mem.jobs) + 1]
  <1>1. Good(mem) /\ Good(disk) /\ Extends(disk, mem)
    BY DEF Inv, Stores
  <1>2. service = "up" /\ client.stage \in {"start", "prepare"}
    BY DEF StartJob, Asking
  <1>3. client.song \in 1..Len(mem.songs)
    BY <1>1, <1>2, LengthsAreNumbers DEF Inv, Browser, Extends
  <1>4. Good(n) /\ Extends(mem, n) /\ Len(n.jobs) >= 1
    BY <1>1, <1>3, JobIsGood
  <1>5. Refused \/ Entered(n)
    BY DEF StartJob, AudioLost, Pending
  <1>. HIDE DEF n
  <1>. QED
    BY <1>2, <1>4, <1>5, RefusedInv, EnteredInv DEF Asked

LEMMA SavedInv == Inv /\ Saved => Inv'
  <1>. SUFFICES ASSUME Inv, Saved PROVE Inv'
    OBVIOUS
  <1>1. /\ mem' = mem /\ disk' = mem /\ sessions' = sessions /\ service' = service
        /\ service = "up" /\ client.saving
        /\ client.stage \in {"project", "song", "upload", "start", "prepare"}
    BY DEF Saved, NextStage
  <1>2. /\ Good(mem) /\ Good(disk) /\ Extends(disk, mem)
        /\ Len(mem.songs) \in Nat /\ Len(mem.jobs) \in Nat /\ Len(disk.songs) \in Nat
    BY LengthsAreNumbers DEF Inv, Stores
  <1>3. Good(mem)' /\ Good(disk)' /\ Extends(disk, disk')
    BY <1>1, <1>2 DEF Good, GoodSong, GoodJob
  <1>4. Stores'
    BY <1>1, <1>2, <1>3, ExtendsItself DEF Stores, Extends
  <1>5. Threads'
    <2>1. CASE runs' = runs
      BY <1>1, <2>1 DEF Inv, Threads
    <2>2. CASE client.stage \in {"start", "prepare"} /\ runs' = [runs EXCEPT ![Len(mem.jobs)] = "scheduled"]
      <3>1. Len(mem.jobs) \in 1..Len(mem.jobs)
        BY <1>1, <1>2, <2>2 DEF Inv, Browser
      <3>. QED
        BY <1>1, <2>2, <3>1 DEF Inv, Threads, Steps
    <2>. QED
      BY <2>1, <2>2 DEF Saved
  <1>6. Browser'
    <2>. DEFINE stage == NextStage[client.stage]
                song == IF client.stage = "song" THEN Len(mem.songs) ELSE client.song
                job == IF client.stage \in {"start", "prepare"} THEN Len(mem.jobs)
                       ELSE client.job
    <2>1. client \in [stage : Stages, saving : BOOLEAN, song : Nat, job : Nat,
                      listening : Session]
      BY DEF Inv, Browser
    <2>2. stage \in Stages /\ song \in Nat /\ job \in Nat
      BY <1>1, <1>2, <2>1 DEF NextStage, Stages
    <2>3. client' = [client EXCEPT !.stage = stage, !.saving = FALSE, !.song = song, !.job = job]
      BY DEF Saved
    <2>4. stage = NextStage[client.stage]
      OBVIOUS
    <2>5. song = IF client.stage = "song" THEN Len(mem.songs) ELSE client.song
      OBVIOUS
    <2>. HIDE DEF stage, song, job
    <2>6. /\ client' \in [stage : Stages, saving : BOOLEAN, song : Nat, job : Nat,
                           listening : Session]
          /\ client'.stage = stage /\ client'.saving = FALSE /\ client'.song = song
          /\ client'.listening = client.listening
      BY <2>1, <2>2, <2>3
    <2>7. /\ client'.stage = NextStage[client.stage] /\ ~client'.saving
          /\ client'.listening = client.listening
          /\ client'.song = IF client.stage = "song" THEN Len(mem.songs) ELSE client.song
          /\ client' \in [stage : Stages, saving : BOOLEAN, song : Nat, job : Nat,
                          listening : Session]
      BY <2>4, <2>5, <2>6
    <2>8. /\ client'.stage # "listening"
          /\ client'.stage \notin {"home", "project", "song", "listening", "failed"} =>
               client.stage \in {"song", "upload", "start", "prepare"}
      BY <1>1, <2>7 DEF NextStage
    <2>9. client'.song <= Len(mem.songs)
      BY <1>2, <2>7 DEF Inv, Browser, Extends
    <2>10. client'.stage \notin {"home", "project", "song", "listening", "failed"} =>
            client'.song >= 1
      BY <1>1, <1>2, <2>7, <2>8 DEF Inv, Browser
    <2>. QED
      BY <1>1, <2>7, <2>8, <2>9, <2>10 DEF Inv, Browser
  <1>7. Stored'
    BY <1>1, <1>2, <1>3, StoredKept DEF Inv
  <1>8. Down'
    BY <1>1 DEF Inv, Down
  <1>. QED
    BY <1>4, <1>5, <1>6, <1>7, <1>8 DEF Inv

LEMMA CheckSessionInv == Inv /\ CheckSession => Inv'
  <1>. SUFFICES ASSUME Inv, CheckSession PROVE Inv'
    OBVIOUS
  <1>1. Good(mem) /\ Extends(mem, mem)
    BY ExtendsItself DEF Inv, Stores
  <1>2. CASE Selected(client.song, client.job) /\ Entered(mem)
    BY <1>1, <1>2, EnteredInv DEF CheckSession, Asking, Selected, Asked
  <1>. QED
    BY <1>2, RefusedInv DEF CheckSession

LEMMA CreateSessionInv == Inv /\ CreateSession => Inv'
  <1>. SUFFICES ASSUME Inv, CreateSession PROVE Inv'
    OBVIOUS
  <1>. DEFINE session == [song |-> client.song, reference |-> client.job]
  <1>1. /\ mem' = mem /\ disk' = mem /\ sessions' = sessions \cup {session}
        /\ runs' = runs /\ service' = service /\ service = "up"
        /\ client.saving /\ client.stage \in {"session", "anew"}
        /\ client' = [client EXCEPT !.stage = "listening", !.saving = FALSE,
                                    !.listening = session]
    BY DEF CreateSession, StoreSession
  <1>2. /\ Good(mem) /\ Good(disk) /\ Extends(disk, mem)
        /\ Len(mem.songs) \in Nat /\ Len(disk.songs) \in Nat
    BY LengthsAreNumbers DEF Inv, Stores
  <1>3. /\ session \in Session /\ client.song \in 1..Len(mem.songs)
        /\ client.job \in mem.references
    BY <1>1, <1>2 DEF Inv, Browser, Session, Extends
  <1>4. Stores'
    BY <1>1, <1>2, ExtendsItself DEF Stores, Good, GoodSong, GoodJob, Extends
  <1>5. Threads'
    BY <1>1 DEF Inv, Threads
  <1>6. Browser'
    <2>1. /\ client \in [stage : Stages, saving : BOOLEAN, song : Nat, job : Nat,
                          listening : Session]
          /\ "listening" \in Stages
      BY DEF Inv, Browser, Stages
    <2>. HIDE DEF session
    <2>2. /\ client' \in [stage : Stages, saving : BOOLEAN, song : Nat, job : Nat,
                           listening : Session]
          /\ client'.stage = "listening" /\ client'.saving = FALSE
          /\ client'.song = client.song /\ client'.listening = session
      BY <1>1, <1>3, <2>1
    <2>. QED
      BY <1>1, <1>2, <1>3, <2>2 DEF Browser
  <1>7. Stored'
    BY <1>1, <1>2, <1>3 DEF Inv, Stored, Extends
  <1>8. Down'
    BY <1>1 DEF Inv, Down
  <1>. QED
    BY <1>4, <1>5, <1>6, <1>7, <1>8 DEF Inv

-----------------------------------------------------------------------------
(* The jobs.                                                               *)

\* A thread moves; memory may gain.
LEMMA RunInv ==
  ASSUME Inv, NEW j \in 1..MaxJobs, NEW from \in Steps \ {"none"}, NEW to \in Steps,
         Run(j, from, to), Good(mem'), Extends(mem, mem'),
         to \in {"kept", "choosing", "completing"} => j \in mem'.references,
         disk' = disk, sessions' = sessions, client' = client, service' = service
  PROVE  Inv'
  <1>1. /\ Good(mem) /\ Good(disk) /\ Good(disk') /\ Extends(disk, mem) /\ Extends(disk, disk')
        /\ Len(mem.jobs) \in Nat /\ Len(mem'.jobs) \in Nat
    BY LengthsAreNumbers, ExtendsItself DEF Inv, Stores
  <1>2. Stores'
    <2>1. Extends(disk, mem')
      BY <1>1, ExtendsThrough
    <2>. QED
      BY <1>1, <2>1 DEF Stores, Good, GoodSong, GoodJob, Extends
  <1>3. Threads'
    <2>1. /\ runs \in [1..MaxJobs -> Steps] /\ runs' = [runs EXCEPT ![j] = to]
          /\ j \in 1..Len(mem.jobs)
      BY DEF Run, Inv, Threads
    <2>2. runs' \in [1..MaxJobs -> Steps]
      BY <2>1
    <2>3. ASSUME NEW k \in 1..MaxJobs
          PROVE  /\ runs'[k] # "none" => k \in 1..Len(mem'.jobs)
                 /\ runs'[k] \in {"kept", "choosing", "completing"} => k \in mem'.references
      <3>1. CASE k = j
        BY <1>1, <2>1, <3>1 DEF Extends
      <3>2. CASE k # j
        BY <1>1, <2>1, <3>2 DEF Inv, Threads, Extends
      <3>. QED
        BY <3>1, <3>2
    <2>. QED
      BY <2>2, <2>3 DEF Threads
  <1>4. Browser'
    BY <1>1, BrowserKept DEF Inv
  <1>5. Stored' /\ Down'
    BY DEF Inv, Stored, Down, Run
  <1>. QED
    BY <1>2, <1>3, <1>4, <1>5 DEF Inv

\* Where a thread is, its job is; past the building its reference is too.
LEMMA ThreadHasJob ==
  ASSUME Inv, NEW j \in 1..MaxJobs, runs[j] # "none"
  PROVE  /\ j \in 1..Len(mem.jobs) /\ Good(mem) /\ Extends(mem, mem)
         /\ runs[j] \in {"kept", "choosing", "completing"} => j \in mem.references
  BY ExtendsItself DEF Inv, Threads, Stores

LEMMA SaveInv ==
  ASSUME Inv, NEW j \in 1..MaxJobs, Save(j)
  PROVE  Inv'
  <1>1. PICK step \in {<<"begun", "building">>, <<"ending", "none">>} : Run(j, step[1], step[2])
    BY DEF Save
  <1>2. /\ mem' = mem /\ disk' = mem /\ sessions' = sessions /\ client' = client
        /\ service' = service /\ service = "up"
    BY <1>1 DEF Save, Run
  <1>3. /\ Good(mem) /\ Good(disk) /\ Extends(disk, mem) /\ Extends(mem, mem)
    BY ExtendsItself DEF Inv, Stores
  <1>4. Good(mem)' /\ Good(disk)' /\ Extends(disk, mem)' /\ Extends(mem, mem') /\ Extends(disk, disk')
    BY <1>2, <1>3 DEF Good, GoodSong, GoodJob, Extends
  <1>5. Threads'
    <2>1. runs' = [runs EXCEPT ![j] = step[2]] /\ step[2] \in {"building", "none"} /\ runs[j] # "none"
      BY <1>1 DEF Run
    <2>. QED
      BY <1>2, <2>1 DEF Inv, Threads, Steps
  <1>6. Good(mem') /\ Good(disk')
    BY <1>2, <1>3
  <1>7. Browser' /\ Stored'
    BY <1>2, <1>3, <1>4, <1>6, BrowserKept, StoredKept DEF Inv
  <1>8. Down'
    BY <1>2 DEF Inv, Down
  <1>. QED
    BY <1>4, <1>5, <1>7, <1>8 DEF Inv, Stores

LEMMA RunSaveFailsInv ==
  ASSUME Inv, NEW j \in 1..MaxJobs, RunSaveFails(j)
  PROVE  Inv'
  <1>1. CASE Run(j, "begun", "none")
    <2>1. Good(mem) /\ mem' = mem /\ Extends(mem, mem)
      BY ExtendsItself DEF RunSaveFails, Inv, Stores
    <2>. QED
      BY <1>1, <2>1, RunInv DEF RunSaveFails, Steps
  <1>2. CASE Run(j, "ending", "none")
    <2>1. Good(mem) /\ mem' = mem /\ Extends(mem, mem)
      BY ExtendsItself DEF RunSaveFails, Inv, Stores
    <2>. QED
      BY <1>2, <2>1, RunInv DEF RunSaveFails, Steps
  <1>. QED
    BY <1>1, <1>2 DEF RunSaveFails

LEMMA GoesInv ==
  ASSUME Inv, NEW j \in 1..MaxJobs, Goes(j)
  PROVE  Inv'
  <1>. USE DEF Steps
  <1>1. CASE Begin(j)
    <2>1. runs[j] # "none"
      BY <1>1 DEF Begin, Run
    <2>2. mem' = Status(mem, j, "running")
      BY <1>1 DEF Begin
    <2>3. Good(mem') /\ Extends(mem, mem')
      BY <2>1, <2>2, ThreadHasJob, StatusIsGood DEF Statuses
    <2>. QED
      BY <1>1, <2>3, RunInv DEF Begin
  <1>2. CASE Save(j)
    BY <1>2, SaveInv
  <1>3. CASE Build(j)
    <2>1. runs[j] # "none"
      BY <1>3 DEF Build, Run
    <2>2. CASE Run(j, "building", "built") /\ mem' = mem
      <3>1. Good(mem') /\ Extends(mem, mem')
        BY <2>1, <2>2, ThreadHasJob
      <3>. QED
        BY <1>3, <2>2, <3>1, RunInv DEF Build
    <2>3. CASE Run(j, "building", "ending") /\ mem' = Status(mem, j, "failed")
      <3>1. Good(mem') /\ Extends(mem, mem')
        BY <2>1, <2>3, ThreadHasJob, StatusIsGood DEF Statuses
      <3>. QED
        BY <1>3, <2>3, <3>1, RunInv DEF Build
    <2>. QED
      BY <1>3, <2>2, <2>3 DEF Build
  <1>4. CASE Keep(j)
    <2>1. runs[j] # "none"
      BY <1>4 DEF Keep, Run
    <2>2. Good(mem') /\ Extends(mem, mem') /\ j \in mem'.references
      BY <1>4, <2>1, ThreadHasJob, ReferenceIsGood DEF Keep
    <2>. QED
      BY <1>4, <2>2, RunInv DEF Keep
  <1>5. CASE Check(j)
    <2>. DEFINE to == IF mem.songs[mem.jobs[j].song].pending = j THEN "choosing"
                      ELSE "completing"
    <2>1. Run(j, "kept", to) /\ runs[j] = "kept" /\ mem' = mem
      BY <1>5 DEF Check, Run
    <2>2. Good(mem') /\ Extends(mem, mem') /\ j \in mem'.references
      BY <2>1, ThreadHasJob
    <2>3. to \in Steps
      OBVIOUS
    <2>. HIDE DEF to
    <2>. QED
      BY <1>5, <2>1, <2>2, <2>3, RunInv DEF Check
  <1>6. CASE Choose(j)
    <2>1. runs[j] = "choosing"
      BY <1>6 DEF Choose, Run
    <2>2. j \in mem.references /\ Good(mem)
      BY <2>1, ThreadHasJob
    <2>3. Good(mem') /\ Extends(mem, mem')
      BY <1>6, <2>2, ChoiceIsGood DEF Choose
    <2>4. j \in mem'.references
      BY <2>2, <2>3 DEF Extends
    <2>. QED
      BY <1>6, <2>3, <2>4, RunInv DEF Choose
  <1>7. CASE Complete(j)
    <2>1. runs[j] = "completing"
      BY <1>7 DEF Complete, Run
    <2>2. mem' = Status(mem, j, "completed")
      BY <1>7 DEF Complete
    <2>3. Good(mem') /\ Extends(mem, mem')
      BY <2>1, <2>2, ThreadHasJob, StatusIsGood DEF Statuses
    <2>. QED
      BY <1>7, <2>3, RunInv DEF Complete
  <1>. QED
    BY <1>1, <1>2, <1>3, <1>4, <1>5, <1>6, <1>7 DEF Goes

-----------------------------------------------------------------------------
(* The browser's turns.                                                    *)

\* A turn while nothing is asked of the service.
LEMMA TurnedInv ==
  ASSUME Inv, NEW stage \in Stages, NEW song \in Nat, song <= Len(disk.songs),
         client' = [client EXCEPT !.stage = stage, !.song = song],
         ~client.saving,
         stage \notin {"home", "project", "song", "listening", "failed"} => song >= 1,
         stage = "listening" => client.listening \in sessions,
         UNCHANGED <<mem, disk, sessions, runs, service>>
  PROVE  Inv'
  <1>1. Stores' /\ Threads' /\ Stored'
    BY DEF Inv, Stores, Good, GoodSong, GoodJob, Extends, Threads, Stored
  <1>2. client \in [stage : Stages, saving : BOOLEAN, song : Nat, job : Nat,
                    listening : Session]
    BY DEF Inv, Browser
  <1>3. /\ client' \in [stage : Stages, saving : BOOLEAN, song : Nat, job : Nat,
                         listening : Session]
        /\ client'.stage = stage /\ client'.song = song /\ client'.saving = client.saving
        /\ client'.listening = client.listening
    BY <1>2
  <1>4. Browser'
    BY <1>3 DEF Inv, Browser
  <1>5. Down'
    BY <1>3 DEF Inv, Down
  <1>. QED
    BY <1>1, <1>4, <1>5 DEF Inv

LEMMA TurnInv ==
  ASSUME Inv, NEW from, NEW to \in Stages, Turn(from, to), from \cap Asked = {},
         to \notin {"home", "project", "song", "listening", "failed"} =>
           from \cap {"home", "project", "song", "listening", "failed"} = {},
         to = "listening" => client.listening # Nowhere
  PROVE  Inv'
  <1>1. /\ client.stage \in from /\ client' = [client EXCEPT !.stage = to]
        /\ UNCHANGED <<mem, disk, sessions, runs, service>>
    BY DEF Turn
  <1>2. /\ ~client.saving /\ client.song \in Nat /\ client.song <= Len(disk.songs)
        /\ client \in [stage : Stages, saving : BOOLEAN, song : Nat, job : Nat,
                        listening : Session]
    BY <1>1 DEF Inv, Browser
  <1>3. client' = [client EXCEPT !.stage = to, !.song = client.song]
    BY <1>1, <1>2
  <1>4. to \notin {"home", "project", "song", "listening", "failed"} => client.song >= 1
    BY <1>1 DEF Inv, Browser
  <1>5. to = "listening" => client.listening \in sessions
    BY DEF Inv, Browser
  <1>. QED
    BY <1>1, <1>2, <1>3, <1>4, <1>5, TurnedInv

LEMMA BrowserInv == Inv /\ (Setup \/ Prepare \/ StartAnew \/ Told \/ GiveUp \/ Again) => Inv'
  <1>. SUFFICES ASSUME Inv, Setup \/ Prepare \/ StartAnew \/ Told \/ GiveUp \/ Again PROVE Inv'
    OBVIOUS
  <1>. USE DEF Asked, Stages
  <1>1. CASE Setup
    BY <1>1, TurnInv DEF Setup
  <1>2. CASE Prepare
    <2>1. /\ client.listening \in sessions /\ client.listening \in Session
          /\ client.listening.song \in 1..Len(disk.songs) /\ ~client.saving
      BY <1>2 DEF Prepare, Inv, Browser, Stored
    <2>2. client.listening.song \in Nat /\ client.listening.song >= 1
          /\ client.listening.song <= Len(disk.songs)
      BY <2>1, LengthsAreNumbers DEF Inv, Stores
    <2>. QED
      BY <1>2, <2>1, <2>2, TurnedInv DEF Prepare
  <1>3. CASE StartAnew
    BY <1>3, TurnInv DEF StartAnew
  <1>4. CASE Told
    <2>1. CASE Turn({"wait"}, "session")
      BY <2>1, TurnInv
    <2>2. CASE Turn({"await"}, "ready")
      BY <2>2, TurnInv
    <2>3. CASE Turn({"wait", "await"}, "failed")
      BY <2>3, TurnInv
    <2>. QED
      BY <1>4, <2>1, <2>2, <2>3 DEF Told, Prepared
  <1>5. CASE GiveUp
    BY <1>5, TurnInv DEF GiveUp
  <1>6. CASE Again
    <2>1. CASE Turn({"failed"}, "home")
      BY <2>1, TurnInv
    <2>2. CASE client.listening # Nowhere /\ Turn({"failed"}, "listening")
      BY <2>2, TurnInv
    <2>. QED
      BY <1>6, <2>1, <2>2 DEF Again
  <1>. QED
    BY <1>1, <1>2, <1>3, <1>4, <1>5, <1>6

-----------------------------------------------------------------------------
(* The service's life.                                                     *)

LEMMA HaltInv == Inv /\ Halt => Inv'
  <1>. SUFFICES ASSUME Inv, Halt PROVE Inv'
    OBVIOUS
  <1>1. /\ mem' = disk /\ disk' = disk /\ sessions' = sessions /\ service' = "down"
        /\ runs' = [j \in DOMAIN runs |-> "none"]
        /\ client' = IF client.saving THEN [client EXCEPT !.stage = "failed", !.saving = FALSE]
                     ELSE client
    BY DEF Halt
  <1>2. Good(disk) /\ Extends(disk, disk)
    BY ExtendsItself DEF Inv, Stores
  <1>3. Stores' /\ Stored'
    BY <1>1, <1>2 DEF Inv, Stores, Good, GoodSong, GoodJob, Extends, Stored
  <1>4. runs' = [j \in 1..MaxJobs |-> "none"]
    BY <1>1 DEF Inv, Threads
  <1>5. Threads'
    BY <1>4 DEF Threads, Steps
  <1>6. Browser' /\ ~client'.saving
    <2>1. client \in [stage : Stages, saving : BOOLEAN, song : Nat, job : Nat,
                      listening : Session]
      BY DEF Inv, Browser
    <2>2. CASE client.saving
      <3>1. /\ client' \in [stage : Stages, saving : BOOLEAN, song : Nat, job : Nat,
                             listening : Session]
            /\ client'.stage = "failed" /\ client'.saving = FALSE
            /\ client'.song = client.song /\ client'.listening = client.listening
        BY <1>1, <2>1, <2>2 DEF Stages
      <3>. QED
        BY <1>1, <3>1 DEF Inv, Browser
    <2>3. CASE ~client.saving
      BY <1>1, <2>3 DEF Inv, Browser
    <2>. QED
      BY <2>2, <2>3
  <1>7. Down'
    BY <1>1, <1>4, <1>6 DEF Down
  <1>. QED
    BY <1>3, <1>5, <1>6, <1>7 DEF Inv

LEMMA RestartInv == Inv /\ Restart => Inv'
  <1>. SUFFICES ASSUME Inv, Restart PROVE Inv'
    OBVIOUS
  <1>1. /\ mem' = Interrupted(disk) /\ disk' = mem' /\ service' = "up" /\ service = "down"
        /\ sessions' = sessions /\ runs' = runs /\ client' = client
    BY DEF Restart
  <1>2. Good(disk) /\ Good(mem') /\ Extends(disk, mem') /\ Extends(mem', mem')
    BY <1>1, InterruptedIsGood, ExtendsItself DEF Inv, Stores
  <1>. HIDE DEF Interrupted
  <1>3. Good(disk') /\ Extends(disk, disk') /\ Extends(disk', mem')
    BY <1>1, <1>2
  <1>4. Stores'
    BY <1>1, <1>2, <1>3 DEF Stores, Good, GoodSong, GoodJob, Extends
  <1>5. ~client.saving /\ \A j \in 1..MaxJobs : runs[j] = "none"
    BY <1>1 DEF Inv, Down
  <1>6. Threads'
    BY <1>1, <1>5 DEF Inv, Threads
  <1>7. Browser'
    <2>1. Len(disk.songs) \in Nat /\ Len(disk'.songs) \in Nat
      BY <1>2, <1>3, LengthsAreNumbers
    <2>. QED
      BY <1>1, <1>3, <1>5, <2>1 DEF Inv, Browser, Extends
  <1>8. Stored'
    BY <1>1, <1>2, <1>3, StoredKept DEF Inv
  <1>9. Down'
    BY <1>1 DEF Down
  <1>. QED
    BY <1>4, <1>6, <1>7, <1>8, <1>9 DEF Inv

LEMMA NextInv == Inv /\ [Next]_vars => Inv'
  <1>. SUFFICES ASSUME Inv, [Next]_vars PROVE Inv'
    OBVIOUS
  <1>1. CASE UNCHANGED vars
    BY <1>1 DEF vars, Inv, Stores, Good, GoodSong, GoodJob, Extends, Threads, Browser, Stored,
                Down
  <1>2. CASE SaveFails
    BY <1>2, RefusedInv DEF SaveFails
  <1>3. CASE \E j \in 1..MaxJobs : Goes(j) \/ RunSaveFails(j)
    BY <1>3, GoesInv, RunSaveFailsInv
  <1>4. CASE Crash \/ Shutdown
    BY <1>4, HaltInv DEF Crash, Shutdown
  <1>5. CASE CreateProject \/ CreateSong \/ UploadAudio \/ StartJob \/ Saved
    BY <1>5, SetupInv, StartJobInv, SavedInv
  <1>6. CASE CheckSession \/ CreateSession
    BY <1>6, CheckSessionInv, CreateSessionInv
  <1>7. CASE Setup \/ Prepare \/ StartAnew \/ Told \/ GiveUp \/ Again
    BY <1>7, BrowserInv
  <1>8. CASE Restart
    BY <1>8, RestartInv
  <1>. QED
    BY <1>1, <1>2, <1>3, <1>4, <1>5, <1>6, <1>7, <1>8 DEF Next

-----------------------------------------------------------------------------
(* What it gives.                                                          *)

LEMMA InvGivesTypes == Inv => TypeOK
  <1>. SUFFICES ASSUME Inv PROVE TypeOK
    OBVIOUS
  <1>1. ASSUME NEW m, Good(m)
        PROVE  /\ m.songs \in Seq([pending : 0..Len(m.jobs), selected : 0..Len(m.jobs)])
               /\ m.jobs \in Seq([song : 1..Len(m.songs), status : Statuses])
               /\ m.references \subseteq DOMAIN m.jobs
    <2>1. m \in Store /\ Len(m.jobs) \in Nat /\ Len(m.songs) \in Nat
      BY <1>1 DEF Good, Store
    <2>2. ASSUME NEW s \in 1..Len(m.songs)
          PROVE  m.songs[s] \in [pending : 0..Len(m.jobs), selected : 0..Len(m.jobs)]
      <3>1. m.songs[s] \in SongRecord /\ GoodSong(m, s)
        BY <1>1, <2>1 DEF Good, Store
      <3>2. m.songs[s].selected \in 0..Len(m.jobs)
        BY <1>1, <2>1, <3>1 DEF Good, GoodSong
      <3>. QED
        BY <3>1, <3>2 DEF GoodSong, SongRecord
    <2>3. ASSUME NEW j \in 1..Len(m.jobs)
          PROVE  m.jobs[j] \in [song : 1..Len(m.songs), status : Statuses]
      <3>1. m.jobs[j] \in JobRecord /\ GoodJob(m, j)
        BY <1>1, <2>1 DEF Good, Store
      <3>. QED
        BY <3>1 DEF GoodJob, JobRecord
    <2>4. DOMAIN m.jobs = 1..Len(m.jobs) /\ m.songs \in Seq(SongRecord) /\ m.jobs \in Seq(JobRecord)
      BY <2>1 DEF Store
    <2>5. m.songs \in Seq([pending : 0..Len(m.jobs), selected : 0..Len(m.jobs)])
      <3>. DEFINE song == [pending : 0..Len(m.jobs), selected : 0..Len(m.jobs)]
      <3>1. \A s \in 1..Len(m.songs) : m.songs[s] \in song
        BY <2>2
      <3>. HIDE DEF song
      <3>2. m.songs \in Seq(song)
        BY <2>4, <3>1, ElementsDecide
      <3>. QED
        BY <3>2 DEF song
    <2>6. m.jobs \in Seq([song : 1..Len(m.songs), status : Statuses])
      <3>. DEFINE job == [song : 1..Len(m.songs), status : Statuses]
      <3>1. \A j \in 1..Len(m.jobs) : m.jobs[j] \in job
        BY <2>3
      <3>. HIDE DEF job
      <3>2. m.jobs \in Seq(job)
        BY <2>4, <3>1, ElementsDecide
      <3>. QED
        BY <3>2 DEF job
    <2>. QED
      BY <1>1, <2>4, <2>5, <2>6 DEF Good
  <1>2. Good(mem) /\ Good(disk)
    BY DEF Inv, Stores
  <1>. QED
    BY <1>1, <1>2 DEF TypeOK, Inv, Threads, Down, Steps, Statuses

LEMMA InvGivesPrepared == Inv => PreparedBeforeTold
  <1>. SUFFICES ASSUME Inv PROVE PreparedBeforeTold
    OBVIOUS
  <1>1. ASSUME NEW m \in {mem, disk}
        PROVE  /\ DOMAIN m.jobs = 1..Len(m.jobs) /\ DOMAIN m.songs = 1..Len(m.songs)
               /\ \A j \in 1..Len(m.jobs) : GoodJob(m, j)
               /\ \A s \in 1..Len(m.songs) : GoodSong(m, s)
    BY DEF Inv, Stores, Good, Store
  <1>2. \A m \in {mem, disk} :
          /\ \A j \in DOMAIN m.jobs : m.jobs[j].status = "completed" => j \in m.references
          /\ \A s \in DOMAIN m.songs :
               m.songs[s].selected # 0 => /\ m.songs[s].selected \in m.references
                                          /\ m.jobs[m.songs[s].selected].song = s
    BY <1>1 DEF GoodJob, GoodSong
  <1>3. \A x \in sessions : x.reference \in disk.references /\ x.song \in DOMAIN disk.songs
    BY <1>1 DEF Inv, Stored
  <1>. QED
    BY <1>2, <1>3 DEF PreparedBeforeTold

\* Whatever is created, prepared, refused or lost with a crash, memory and the store
\* (service.py's dictionaries and what _load_state reads of them) hold lists of songs
\* and jobs that name one another's entries only.
THEOREM TypesHold == Spec => []TypeOK
  BY InitInv, NextInv, InvGivesTypes, PTL DEF Spec

\* For any number of songs, jobs, failed saves and crashes: a job that memory or the
\* store calls completed, a song's selection and a stored session have their reference
\* (run_reference_job keeps it before it tells; each save takes all that memory has).
THEOREM PreparedIsTold == Spec => []PreparedBeforeTold
  BY InitInv, NextInv, InvGivesPrepared, PTL DEF Spec
=============================================================================
