--------------------------- MODULE ReferenceJobs ---------------------------
(***************************************************************************)
(* How a song gets its reference (apps/api/service.py: create_project to   *)
(* create_session, run_reference_job, _load_state) and how the browser     *)
(* goes through it (apps/ui/runtime-adapter.js, setup and                  *)
(* reprepareReference; apps/ui/app.js): one browser asks, each reference   *)
(* job has a thread, nothing but single saves is locked, the service may   *)
(* fail to save, crash, or be shut down, and is started again.             *)
(*                                                                         *)
(* An identity is its number; a reference has the number of its job, with  *)
(* which it is allotted.  Audio is intact or not, analysis succeeds or     *)
(* not.  What is stored is the payload of save_runtime_state, encoded when *)
(* the store's lock is held, and the sessions.                             *)
(***************************************************************************)
EXTENDS Naturals, Sequences

CONSTANTS MaxSongs, MaxJobs, MaxFaults   \* bounds of a run

ASSUME JobsAssumption == MaxSongs \in Nat /\ MaxJobs \in Nat /\ MaxFaults \in Nat

VARIABLES
  mem,       \* projects, songs, assets, jobs and references in memory
  disk,      \* the same as stored
  sessions,  \* the stored sessions, with the song and the reference of each
  runs,      \* how far the thread of each job is
  client,    \* the browser: [stage, saving, song, job, listening]
  service,   \* "up" or "down"
  used       \* failed saves and crashes so far: [saves, crashes]

vars == <<mem, disk, sessions, runs, client, service, used>>

Empty == [projects |-> 0, songs |-> <<>>, assets |-> 0, jobs |-> <<>>, references |-> {}]
Active(job) == job.status \in {"queued", "running"}
Nowhere == [song |-> 0, reference |-> 0]

Init ==
  /\ mem = Empty /\ disk = Empty
  /\ sessions = {}
  /\ runs = [j \in 1..MaxJobs |-> "none"]
  /\ client = [stage |-> "home", saving |-> FALSE, song |-> 0, job |-> 0, listening |-> Nowhere]
  /\ service = "up"
  /\ used = [saves |-> 0, crashes |-> 0]

-----------------------------------------------------------------------------
(* The service's handlers: memory first, then the save, then the answer.   *)

Asking(stage) == service = "up" /\ client.stage = stage /\ ~client.saving

\* The handler has changed memory.
Entered(m) ==
  /\ mem' = m
  /\ client' = [client EXCEPT !.saving = TRUE]
  /\ UNCHANGED <<disk, sessions, runs, service, used>>

\* An error answer; what memory has stays.
Refused ==
  /\ client' = [client EXCEPT !.stage = "failed", !.saving = FALSE]
  /\ UNCHANGED <<mem, disk, sessions, runs, service>>

CreateProject ==
  /\ Asking("project") /\ mem.projects < MaxSongs
  /\ Entered([mem EXCEPT !.projects = @ + 1])

\* No model can be opened, or another than before.
Unavailable == Refused /\ UNCHANGED used

\* create_song asks the model for its families.
CreateSong ==
  /\ Asking("song")
  /\ \/ Unavailable
     \/ /\ Len(mem.songs) < MaxSongs
        /\ Entered([mem EXCEPT !.songs = Append(@, [pending |-> 0, selected |-> 0])])

\* upload_audio, which decodes what it stores.
UploadAudio ==
  /\ Asking("upload")
  /\ \/ Refused /\ UNCHANGED used
     \/ mem.assets < MaxSongs /\ Entered([mem EXCEPT !.assets = @ + 1])

\* Mutated: the song waits for the job after.
Awaited(j) == j + 1

Pending(j) == j

\* The stored audio of a reference is not what was uploaded any more.
AudioLost == client.stage = "prepare" /\ Refused /\ UNCHANGED used

\* start_reference_job, of an upload or of the stored audio of a reference.
StartJob ==
  LET j == Len(mem.jobs) + 1 IN
  /\ Asking("start") \/ Asking("prepare")
  /\ \/ AudioLost
     \/ /\ j <= MaxJobs
        /\ Entered([mem EXCEPT !.jobs = Append(@, [song |-> client.song, status |-> "queued"]),
                               !.songs[client.song].pending = Pending(j)])

NextStage ==
  [project |-> "song", song |-> "upload", upload |-> "start", start |-> "wait",
   prepare |-> "await"]

\* _save_state and the answer; a started job gets its thread.
Saved ==
  /\ service = "up" /\ client.saving /\ client.stage \in DOMAIN NextStage
  /\ disk' = mem
  /\ client' = [client EXCEPT
       !.stage = NextStage[@], !.saving = FALSE,
       !.song = IF client.stage = "song" THEN Len(mem.songs) ELSE @,
       !.job = IF client.stage \in {"start", "prepare"} THEN Len(mem.jobs) ELSE @]
  /\ runs' = IF client.stage \in {"start", "prepare"}
             THEN [runs EXCEPT ![Len(mem.jobs)] = "scheduled"] ELSE runs
  /\ UNCHANGED <<mem, sessions, service, used>>

SaveFails ==
  /\ service = "up" /\ client.saving
  /\ used.saves < MaxFaults
  /\ used' = [used EXCEPT !.saves = @ + 1]
  /\ Refused

\* Only the reference that its song has selected is listened for.
Selected(song, reference) ==
  reference \in mem.references /\ mem.songs[song].selected = reference

\* create_session, which the model, the source or the capture may stop too.
CheckSession ==
  /\ Asking("session") \/ Asking("anew")
  /\ \/ Selected(client.song, client.job) /\ Entered(mem)
     \/ Refused /\ UNCHANGED used

\* Mutated: the session is stored without what it refers to.
StoreSessionOnly(session) == sessions' = sessions \cup {session} /\ UNCHANGED disk

\* save_runtime_and_session.
StoreSession(session) == sessions' = sessions \cup {session} /\ disk' = mem

CreateSession ==
  LET session == [song |-> client.song, reference |-> client.job] IN
  /\ service = "up" /\ client.saving /\ client.stage \in {"session", "anew"}
  /\ StoreSession(session)
  /\ client' = [client EXCEPT !.stage = "listening", !.saving = FALSE, !.listening = session]
  /\ UNCHANGED <<mem, runs, service, used>>

-----------------------------------------------------------------------------
(* run_reference_job, in its thread.                                       *)

Run(j, from, to) == service = "up" /\ runs[j] = from /\ runs' = [runs EXCEPT ![j] = to]
Status(m, j, status) == [m EXCEPT !.jobs[j].status = status]

Begin(j) ==
  /\ Run(j, "scheduled", "begun")
  /\ mem' = Status(mem, j, "running")
  /\ UNCHANGED <<disk, sessions, client, service, used>>

\* Its two saves; the exception of a failed one ends the thread.
Save(j) ==
  /\ \E step \in {<<"begun", "building">>, <<"ending", "none">>} : Run(j, step[1], step[2])
  /\ disk' = mem
  /\ UNCHANGED <<mem, sessions, client, service, used>>
RunSaveFails(j) ==
  /\ used.saves < MaxFaults
  /\ Run(j, "begun", "none") \/ Run(j, "ending", "none")
  /\ used' = [used EXCEPT !.saves = @ + 1]
  /\ UNCHANGED <<mem, disk, sessions, client, service>>

\* The audio is verified, a model is opened and the profile built, or not.
Build(j) ==
  \/ /\ Run(j, "building", "built")
     /\ UNCHANGED <<mem, disk, sessions, client, service, used>>
  \/ /\ Run(j, "building", "ending")
     /\ mem' = Status(mem, j, "failed")
     /\ UNCHANGED <<disk, sessions, client, service, used>>

Keep(j) ==
  /\ Run(j, "built", "kept")
  /\ mem' = [mem EXCEPT !.references = @ \cup {j}]
  /\ UNCHANGED <<disk, sessions, client, service, used>>

\* The song waits for this job still, or for another that was started since.
Check(j) ==
  /\ Run(j, "kept", IF mem.songs[mem.jobs[j].song].pending = j THEN "choosing" ELSE "completing")
  /\ UNCHANGED <<mem, disk, sessions, client, service, used>>

Choose(j) ==
  /\ Run(j, "choosing", "completing")
  /\ mem' = [mem EXCEPT !.songs[mem.jobs[j].song].selected = j]
  /\ UNCHANGED <<disk, sessions, client, service, used>>

Complete(j) ==
  /\ Run(j, "completing", "ending")
  /\ mem' = Status(mem, j, "completed")
  /\ UNCHANGED <<disk, sessions, client, service, used>>

Goes(j) ==
  Begin(j) \/ Save(j) \/ Build(j) \/ Keep(j) \/ Check(j) \/ Choose(j) \/ Complete(j)

-----------------------------------------------------------------------------
(* The browser.                                                            *)

Turn(from, to) ==
  /\ client.stage \in from
  /\ client' = [client EXCEPT !.stage = to]
  /\ UNCHANGED <<mem, disk, sessions, runs, service, used>>

\* setup; a second attempt begins with a new project and a new song.
Setup == Turn({"home"}, "project")

\* prepareStoredReference and startRepreparedSession of the session on the screen.
Prepare ==
  /\ client.stage = "listening"
  /\ client' = [client EXCEPT !.stage = "prepare", !.song = client.listening.song]
  /\ UNCHANGED <<mem, disk, sessions, runs, service, used>>
StartAnew == Turn({"ready"}, "anew")

\* get_job.
Reported(status) == service = "up" /\ mem.jobs[client.job].status = status

\* setup goes on to its session, reprepareReference leaves that to the user.
Prepared == Turn({"wait"}, "session") \/ Turn({"await"}, "ready")

\* pollReferenceJob: the answer that ends it.
Told ==
  /\ client.stage \in {"wait", "await"}
  /\ \/ Reported("completed") /\ Prepared
     \/ Reported("failed") /\ Turn({"wait", "await"}, "failed")

\* A request that times out or fails, or a minute without progress.
GiveUp == Turn({"wait", "await"}, "failed")

Again ==
  \/ client.listening = Nowhere /\ Turn({"failed"}, "home")
  \/ client.listening # Nowhere /\ Turn({"failed"}, "listening")

-----------------------------------------------------------------------------
(* The service's life.                                                     *)

Halt ==
  /\ service = "up" /\ service' = "down"
  /\ mem' = disk
  /\ runs' = [j \in DOMAIN runs |-> "none"]
  /\ client' = IF client.saving THEN [client EXCEPT !.stage = "failed", !.saving = FALSE]
               ELSE client
  /\ UNCHANGED <<disk, sessions>>

Crash ==
  /\ used.crashes < MaxFaults
  /\ used' = [used EXCEPT !.crashes = @ + 1]
  /\ Halt

\* lifespan: the requests and the job threads are waited for.
Shutdown ==
  /\ used.crashes < MaxFaults
  /\ used' = [used EXCEPT !.crashes = @ + 1]
  /\ ~client.saving
  /\ \A j \in DOMAIN runs : runs[j] = "none"
  /\ Halt

\* Mutated: what was interrupted is left as it was.
LeftAsIs(m) == m

\* A job that was under way has failed.
Interrupted(m) ==
  [m EXCEPT !.jobs = [j \in DOMAIN m.jobs |->
     IF Active(m.jobs[j]) THEN [m.jobs[j] EXCEPT !.status = "failed"] ELSE m.jobs[j]]]

\* _load_state, which saves what it changes.
Restart ==
  /\ service = "down" /\ service' = "up"
  /\ mem' = Interrupted(disk)
  /\ disk' = mem'
  /\ UNCHANGED <<sessions, runs, client, used>>

Next ==
  \/ CreateProject \/ CreateSong \/ UploadAudio \/ StartJob \/ Saved \/ SaveFails
  \/ CheckSession \/ CreateSession
  \/ Setup \/ Prepare \/ StartAnew \/ Told \/ GiveUp \/ Again
  \/ Crash \/ Shutdown \/ Restart
  \/ \E j \in 1..MaxJobs : Goes(j) \/ RunSaveFails(j)

\* Threads run and a request that has begun is finished; the browser, the faults
\* and whoever starts the service owe nothing.
Fairness ==
  /\ WF_vars(Saved \/ CreateSession)
  /\ \A j \in 1..MaxJobs : WF_vars(Goes(j))

Spec == Init /\ [][Next]_vars /\ Fairness

-----------------------------------------------------------------------------
(* Properties                                                              *)

TypeOK ==
  /\ \A m \in {mem, disk} :
       /\ m.songs \in Seq([pending : 0..Len(m.jobs), selected : 0..Len(m.jobs)])
       /\ m.jobs \in Seq([song : 1..Len(m.songs),
                          status : {"queued", "running", "completed", "failed"}])
       /\ m.references \subseteq DOMAIN m.jobs
  /\ runs \in [1..MaxJobs -> {"none", "scheduled", "begun", "building", "built", "kept",
                              "choosing", "completing", "ending"}]
  /\ service \in {"up", "down"}

\* In memory and in the store, whatever thread saved it and whenever the service
\* crashed: a job that is completed and a song's selection have their reference,
\* of that song, and so has every stored session.
PreparedBeforeTold ==
  /\ \A m \in {mem, disk} :
       /\ \A j \in DOMAIN m.jobs : m.jobs[j].status = "completed" => j \in m.references
       /\ \A s \in DOMAIN m.songs :
            m.songs[s].selected # 0 => /\ m.songs[s].selected \in m.references
                                       /\ m.jobs[m.songs[s].selected].song = s
  /\ \A x \in sessions : x.reference \in disk.references /\ x.song \in DOMAIN disk.songs

\* While saves succeed, every job ends, if need be by the restart that finds it
\* interrupted.
JobsEnd ==
  []<>(\/ used.saves > 0
       \/ service = "down"
       \/ \A j \in DOMAIN mem.jobs : ~Active(mem.jobs[j]))
=============================================================================
