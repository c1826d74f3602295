--------------------------------- MODULE Media ---------------------------------
(***************************************************************************)
(* What downloads leave on this machine (ops/media.py, ops/transcribe.py,  *)
(* transcribe.py): calls of several accounts or processes fetch an         *)
(* attachment under a size cap and a quota counted over the directory, and *)
(* may give it to a container, through a docker client, for a transcript.  *)
(***************************************************************************)
EXTENDS Integers, FiniteSetsExt

CONSTANTS
  Fetches,          \* the calls
  MaxFile, Quota,   \* download.max_file_bytes, download.total_quota_bytes
  Sizes,            \* of attachments; what is advertised is one of them or 0, unknown
  MaxMishaps        \* how often something happens that the code cannot mend

ASSUME MediaAssumption ==
  /\ IsFiniteSet(Fetches)
  /\ Sizes \subseteq Nat
  /\ {MaxFile, Quota, MaxMishaps} \subseteq Nat

VARIABLES
  stage,    \* [call -> where it is]
  job,      \* [call -> [size, room, transcribe]]: room is what the quota left
  file,     \* [call -> [there, bytes]]: its artifact
  client,   \* [call -> its docker client], "none", "running" or "gone"
  box,      \* [call -> its container], the same
  mishaps,  \* [call -> what went wrong beyond the code's reach]
  together  \* two calls counted the quota or wrote at the same time

mediaVars == <<stage, job, file, client, box, mishaps, together>>
docker == <<client, box>>

NoFile  == [there |-> FALSE, bytes |-> 0]
Writing == {"counted", "fetching"}
Over    == {"done", "failed", "refused", "killed"}

MediaInit ==
  /\ stage = [c \in Fetches |-> "idle"]
  /\ job = [c \in Fetches |-> [size |-> 0, room |-> 0, transcribe |-> FALSE]]
  /\ file = [c \in Fetches |-> NoFile]
  /\ client = [c \in Fetches |-> "none"] /\ box = [c \in Fetches |-> "none"]
  /\ mishaps = [c \in Fetches |-> {}]
  /\ together = FALSE

GoTo(c, next) == stage' = [stage EXCEPT ![c] = next]

Mishap(c, what) ==
  /\ MapThenSumSet(LAMBDA d : Cardinality(mishaps[d]), Fetches) < MaxMishaps
  /\ mishaps' = [mishaps EXCEPT ![c] = @ \cup {what}]

-----------------------------------------------------------------------------
(* fetch_message_media.                                                     *)

\* What the directory holds, byte by byte.
Stored == UNION {{c} \X (1 .. file[c].bytes) : c \in Fetches}

_directory_usage == Cardinality(Stored)

\* What is advertised may be absent or wrong; the quota is counted once, at the start.
Count(c, size, advertised, transcribe) ==
  /\ stage[c] = "idle"
  /\ LET room == Quota - _directory_usage
     IN /\ job' = [job EXCEPT ![c] = [size |-> size, room |-> room, transcribe |-> transcribe]]
        /\ GoTo(c, IF advertised > MaxFile \/ room <= 0 \/ advertised > room
                   THEN "refused" ELSE "counted")
  /\ together' = (together \/ \E d \in Fetches \ {c} : stage[d] \in Writing)
  /\ UNCHANGED <<file, docker, mishaps>>

\* A file of its own, then the audit record.
_create_artifact(c) ==
  /\ stage[c] = "counted"
  /\ file' = [file EXCEPT ![c].there = TRUE]
  /\ GoTo(c, "fetching")
  /\ UNCHANGED <<job, docker, mishaps, together>>

\* The record that cannot be written is before the try: the empty file stays.
AuditFails(c) ==
  /\ stage[c] = "counted" /\ Mishap(c, "audit")
  /\ file' = [file EXCEPT ![c].there = TRUE]
  /\ GoTo(c, "failed")
  /\ UNCHANGED <<job, docker, together>>

\* (Variation: only the cap is counted as the bytes land.)
CapOnly(c) == file[c].bytes + 1 <= MaxFile

\* _CappedWriter: counted before it is written.
MayWrite(c) == file[c].bytes + 1 <= MaxFile /\ file[c].bytes + 1 <= job[c].room

unlink(c) == file' = [file EXCEPT ![c] = NoFile]

_CappedWriter(c) ==
  /\ stage[c] = "fetching" /\ file[c].bytes < job[c].size
  /\ IF MayWrite(c) THEN file' = [file EXCEPT ![c].bytes = @ + 1] /\ UNCHANGED stage
     ELSE unlink(c) /\ GoTo(c, "failed")
  /\ UNCHANGED <<job, docker, mishaps, together>>

\* Too slow, cancelled, or refused by Telegram or the disk.
DownloadFails(c) ==
  /\ stage[c] = "fetching"
  /\ unlink(c)
  /\ GoTo(c, "failed")
  /\ UNCHANGED <<job, docker, mishaps, together>>

Fetched(c) ==
  /\ stage[c] = "fetching" /\ file[c].bytes = job[c].size
  /\ GoTo(c, IF job[c].transcribe THEN "inspecting" ELSE "done")
  /\ UNCHANGED <<job, file, docker, mishaps, together>>

-----------------------------------------------------------------------------
(* transcribe_file_async.                                                   *)

\* No image, no model, or cancelled meanwhile: there is no container yet.
_image_present(c, ready) ==
  /\ stage[c] = "inspecting"
  /\ GoTo(c, IF ready THEN "spawning" ELSE "failed")
  /\ UNCHANGED <<job, file, docker, mishaps, together>>

Spawn(c) ==
  /\ stage[c] = "spawning"
  /\ client' = [client EXCEPT ![c] = "running"]
  /\ GoTo(c, "listening")
  /\ UNCHANGED <<job, file, box, mishaps, together>>

\* Cancelled inside create_subprocess_exec: the client is killed, a container it asked
\* for is not.
SpawnCancelled(c) ==
  /\ stage[c] = "spawning" /\ Mishap(c, "spawn")
  /\ client' = [client EXCEPT ![c] = "gone"]
  /\ \E left \in {"none", "running"} : box' = [box EXCEPT ![c] = left]
  /\ GoTo(c, "failed")
  /\ UNCHANGED <<job, file, together>>

\* communicate: the client is gone, with an answer or without.
Exits(c, well) ==
  /\ stage[c] = "listening" /\ client[c] = "gone"
  /\ GoTo(c, IF well THEN "done" ELSE "failed")
  /\ UNCHANGED <<job, file, docker, mishaps, together>>

\* Out of time, or cancelled.
Interrupted(c) ==
  /\ stage[c] = "listening"
  /\ GoTo(c, "stopping")
  /\ UNCHANGED <<job, file, docker, mishaps, together>>

\* (Variation: the container is removed while its client still runs.)
LeaveClient(c) == UNCHANGED docker

\* terminate, wait, kill: the container may hear of it, the client ends.
StopClient(c) ==
  /\ client' = [client EXCEPT ![c] = "gone"]
  /\ box' \in {box, [box EXCEPT ![c] = IF @ = "running" THEN "gone" ELSE @]}

_stop_process(c) ==
  /\ stage[c] = "stopping"
  /\ StopClient(c)
  /\ GoTo(c, "removing")
  /\ UNCHANGED <<job, file, mishaps, together>>

force_remove_async(c) ==
  /\ stage[c] = "removing"
  /\ box' = [box EXCEPT ![c] = IF @ = "running" THEN "gone" ELSE @]
  /\ GoTo(c, "failed")
  /\ UNCHANGED <<job, file, client, mishaps, together>>

\* Docker does not do it in thirty seconds.
RemoveFails(c) ==
  /\ stage[c] = "removing" /\ Mishap(c, "rm")
  /\ GoTo(c, "failed")
  /\ UNCHANGED <<job, file, docker, together>>

CancelledAgain(c) ==
  /\ stage[c] \in {"stopping", "removing"} /\ Mishap(c, "again")
  /\ GoTo(c, "failed")
  /\ UNCHANGED <<job, file, docker, together>>

-----------------------------------------------------------------------------
(* Docker, and the process.                                                 *)

\* A client asks for its container once; it goes when the container has gone.
ClientStarts(c) ==
  /\ client[c] = "running" /\ box[c] = "none"
  /\ box' = [box EXCEPT ![c] = "running"]
  /\ UNCHANGED <<stage, job, file, client, mishaps, together>>

\* --rm.
BoxEnds(c) ==
  /\ box[c] = "running"
  /\ box' = [box EXCEPT ![c] = "gone"]
  /\ UNCHANGED <<stage, job, file, client, mishaps, together>>

ClientEnds(c) ==
  /\ client[c] = "running" /\ box[c] = "gone"
  /\ client' = [client EXCEPT ![c] = "gone"]
  /\ UNCHANGED <<stage, job, file, box, mishaps, together>>

ClientDies(c) ==
  /\ client[c] = "running" /\ Mishap(c, "client")
  /\ client' = [client EXCEPT ![c] = "gone"]
  /\ UNCHANGED <<stage, job, file, box, together>>

Killed(c) ==
  /\ stage[c] \notin Over \cup {"idle"} /\ Mishap(c, "killed")
  /\ GoTo(c, "killed")
  /\ UNCHANGED <<job, file, docker, together>>

MediaStep(c) ==
  \/ \E size \in Sizes, advertised \in Sizes \cup {0}, transcribe \in BOOLEAN :
       Count(c, size, advertised, transcribe)
  \/ _create_artifact(c) \/ AuditFails(c) \/ _CappedWriter(c) \/ DownloadFails(c) \/ Fetched(c)
  \/ \E ready \in BOOLEAN : _image_present(c, ready)
  \/ Spawn(c) \/ SpawnCancelled(c) \/ \E well \in BOOLEAN : Exits(c, well)
  \/ Interrupted(c) \/ _stop_process(c) \/ force_remove_async(c)
  \/ RemoveFails(c) \/ CancelledAgain(c)
  \/ ClientStarts(c) \/ BoxEnds(c) \/ ClientEnds(c) \/ ClientDies(c) \/ Killed(c)

MediaNext == \E c \in Fetches : MediaStep(c)

MediaSpec == MediaInit /\ [][MediaNext]_mediaVars

-----------------------------------------------------------------------------
(* Properties.                                                              *)

\* A call that is over leaves a whole file or none, no container and no client of docker,
\* however it was interrupted, but for the mishaps named; and the directory outgrows its
\* quota only when two calls wrote at once, each having counted before the other wrote
\* (fetch_message_media, _CappedWriter, transcribe_file_async).
NothingLeftBehind ==
  /\ \A c \in Fetches : stage[c] \in Over /\ mishaps[c] = {} =>
       /\ file[c].there => file[c].bytes = job[c].size /\ file[c].bytes <= MaxFile
       /\ stage[c] = "done" => file[c].there
       /\ client[c] # "running" /\ box[c] # "running"
  /\ ~ together => _directory_usage <= Quota

=============================================================================
