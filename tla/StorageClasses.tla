--------------------------- MODULE StorageClasses ---------------------------
(***************************************************************************)
(* Choosing the default storage class of a cluster (PerformSetDefault in   *)
(* pkg/models/storageclasses.go).  A request lists the cached classes and  *)
(* goes through them one by one: it edits the cached object itself, in the *)
(* memory that all requests share, and sends it to the API server, which   *)
(* refuses an object that is not the last version.  Requests for different *)
(* classes run side by side; the cache follows the server with a delay.    *)
(*                                                                         *)
(* store[c] is the class in the cluster, memory[c][v] the process's copy   *)
(* of its version v (a pointer the requests hold), cached[c] the version   *)
(* the cache has now.  mark is the annotation: absent, "true" or "false".  *)
(***************************************************************************)
EXTENDS Integers, FiniteSets, FiniteSetsExt

CONSTANTS Classes, Requesters, MaxFaults, MaxForeign, MaxVersion

VARIABLES store, memory, cached, request, faults, foreign, overlapped, chosen

Marks == {"absent", "true", "false"}
Resting == [pc |-> "rest", class |-> "none", todo |-> [c \in {} |-> 0], at |-> "none",
            result |-> "none"]

ScInit ==
  \E m \in [Classes -> Marks] :
    /\ store = [c \in Classes |-> [ver |-> 1, mark |-> m[c]]]
    /\ memory = [c \in Classes |-> [v \in 1..MaxVersion |-> m[c]]]
    /\ cached = [c \in Classes |-> 1]
    /\ request = [r \in Requesters |-> Resting]
    /\ faults = 0 /\ foreign = 0 /\ overlapped = FALSE /\ chosen = "none"

Running(r) == request[r].pc # "rest" /\ request[r].pc # "end"

\* The list holds pointers to the versions the cache has; the row of the
\* class stays locked until the request ends.
GetRawStorageClasses(r, c) ==
  /\ request[r].pc = "rest"
  /\ \A q \in Requesters : Running(q) => request[q].class # c
  /\ request' = [request EXCEPT ![r] =
       [pc |-> "loop", class |-> c, todo |-> cached, at |-> "none", result |-> "none"]]
  /\ overlapped' = (overlapped \/ (\E q \in Requesters : Running(q))
                      \/ \E d \in Classes : cached[d] # store[d].ver)
  /\ UNCHANGED <<store, memory, cached, faults, foreign, chosen>>

\* What a turn of the loop makes of the annotations of a class.
Edit(r, c) ==
  LET ptr == memory[c][request[r].todo[c]]
  IN  [touched |-> c = request[r].class \/ ptr # "absent",
       mark |-> IF c = request[r].class THEN "true" ELSE "absent"]

\* One turn of the loop, up to the call that updates the class.
Turn(r, c) ==
  /\ request[r].pc = "loop" /\ c \in DOMAIN request[r].todo
  /\ IF Edit(r, c).touched
       THEN /\ memory' = [memory EXCEPT ![c][request[r].todo[c]] = Edit(r, c).mark]
            /\ request' = [request EXCEPT ![r].pc = "send", ![r].at = c]
       ELSE /\ request' = [request EXCEPT ![r].todo =
                 [d \in DOMAIN request[r].todo \ {c} |-> request[r].todo[d]]]
            /\ UNCHANGED memory
  /\ UNCHANGED <<store, cached, faults, foreign, overlapped, chosen>>

Sent(r) ==
  LET c == request[r].at
  IN  [request EXCEPT ![r].pc = "loop", ![r].at = "none",
         ![r].todo = [d \in DOMAIN request[r].todo \ {c} |-> request[r].todo[d]]]

\* The update is sent as the shared copy is by then.
Update(r) ==
  LET c == request[r].at
      v == request[r].todo[c]
  IN  /\ request[r].pc = "send" /\ store[c].ver = v
      /\ store' = [store EXCEPT ![c] = [ver |-> v + 1, mark |-> memory[c][v]]]
      /\ request' = Sent(r)
      /\ UNCHANGED <<memory, cached, faults, foreign, overlapped, chosen>>

Failed(r) == [request EXCEPT ![r] = [Resting EXCEPT !.pc = "end", !.class = request[r].class,
                                                    !.result = "error"]]

\* A version conflict, or a call that fails, ends the request on the spot.
UpdateFails(r) ==
  LET c == request[r].at
      conflict == store[c].ver # request[r].todo[c]
  IN  /\ request[r].pc = "send"
      /\ conflict \/ faults < MaxFaults
      /\ faults' = IF conflict THEN faults ELSE faults + 1
      /\ request' = Failed(r)
      /\ UNCHANGED <<store, memory, cached, foreign, overlapped, chosen>>

PerformSetDefault(r) ==
  /\ request[r].pc = "loop" /\ DOMAIN request[r].todo = {}
  /\ request' = [request EXCEPT ![r] = [Resting EXCEPT !.pc = "end",
                   !.class = request[r].class, !.result = "ok"]]
  /\ chosen' = request[r].class
  /\ UNCHANGED <<store, memory, cached, faults, foreign, overlapped>>

\* The watch brings the last version: a new object in the memory.
Observe(c) ==
  /\ cached[c] # store[c].ver
  /\ cached' = [cached EXCEPT ![c] = store[c].ver]
  /\ memory' = [memory EXCEPT ![c][store[c].ver] = store[c].mark]
  /\ UNCHANGED <<store, request, faults, foreign, overlapped, chosen>>

\* Someone else marks a class, through kubectl for instance.
MarkElsewhere(c) ==
  /\ foreign < MaxForeign
  /\ \E m \in Marks : store' = [store EXCEPT ![c] = [ver |-> @.ver + 1, mark |-> m]]
  /\ foreign' = foreign + 1
  /\ UNCHANGED <<memory, cached, request, faults, overlapped, chosen>>

ScNext ==
  \/ \E r \in Requesters, c \in Classes : GetRawStorageClasses(r, c) \/ Turn(r, c)
  \/ \E r \in Requesters : Update(r) \/ UpdateFails(r) \/ PerformSetDefault(r)
  \/ \E c \in Classes : Observe(c) \/ MarkElsewhere(c)

-----------------------------------------------------------------------------

\* GetDetails: the annotation counts whatever its value.
IsDefault(c) == memory[c][cached[c]] # "absent"

\* PerformSetDefault: when every request ran alone, started from a cache that
\* was up to date, succeeded, and nobody else interfered, the class chosen
\* last is the only default one, in the cluster and, once the cache has
\* caught up, in what is shown.  Every exception (several defaults, or none)
\* is the work of an overlap, of a failure half-way or of another client.
DefaultExplained ==
  LET failed == \E r \in Requesters : request[r].result = "error"
      idle == \A r \in Requesters : ~Running(r)
  IN  (idle /\ chosen # "none" /\ ~overlapped /\ ~failed /\ foreign = 0) =>
        /\ \A c \in Classes : store[c].mark = (IF c = chosen THEN "true" ELSE "absent")
        /\ (\A c \in Classes : cached[c] = store[c].ver) =>
             \A c \in Classes : IsDefault(c) <=> c = chosen
=============================================================================
