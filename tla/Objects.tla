------------------------------- MODULE Objects -------------------------------
(***************************************************************************)
(* The objects that stand on their own, one at a time: several tasks and a *)
(* controller around a synchronisation object of the archive, or serial    *)
(* callers around one of its buffers, pools and queues, around a cascaded  *)
(* PID, or around the parameter service.  They know nothing of each other, *)
(* so that a behaviour is about the one that the first state chooses.      *)
(***************************************************************************)
EXTENDS BlockingCall, ParameterValue, Sequences

CONSTANTS
    Subjects,               \* the kinds of object to choose from
    Capacity,               \* of both queues
    Element, Batches,       \* of fixed_queue
    Masks, Requests,        \* of event_group
    Maximum,                \* of count_notification
    PoolCapacity,           \* of object_pool
    MaxSequence,            \* UINT32_MAX
    CounterMax,             \* SIZE_MAX
    FloatLimit,             \* FLT_MAX
    PidConfigs, Readings, TimeSteps,    \* of the cascaded PID
    Registries, MaxGroups, MaxParameters,
    Contexts, Held, StepCounts          \* of the parameter service

ASSUME CapacityAssumption == Capacity \in Nat \ {0}
ASSUME BatchesAssumption == Batches \subseteq Seq(Element)
ASSUME RequestAssumption == None \notin [name : {"pop"}, value : Task]
ASSUME MaximumAssumption == Maximum \in Nat \ {0}
ASSUME PoolCapacityAssumption == PoolCapacity \in Nat \ {0}
ASSUME PidAssumption ==
    /\ FloatLimit \in Nat /\ Readings \subseteq Int /\ TimeSteps \subseteq Int
    /\ \A configs \in PidConfigs : \A c \in {configs[1], configs[2]} :
          \A field \in {"kp", "ki", "kd", "output_min", "output_max", "integral_min",
                       "integral_max", "tracking_gain"} : c[field] \in Int

(* Every parameter has an owner that holds a value of its type: one for a  *)
(* FLOAT holds floats, and is asked for floats.                            *)
Entries(s) == {s[i] : i \in DOMAIN s}
ParametersOf(registry) == UNION {Entries(group.parameters) : group \in Entries(registry)}
ASSUME ParameterAssumption ==
    /\ StepCounts \subseteq Int /\ \A context \in Contexts : Held[context] \subseteq Int
    /\ \A registry \in Registries :
          /\ registry \in Seq(Entries(registry))
          /\ \A group \in Entries(registry) : group.parameters \in Seq(Entries(group.parameters))
          /\ \A d \in ParametersOf(registry) :
                /\ Typed(d) /\ d.context \in Contexts
                /\ d.type = "FLOAT" => \A value \in Held[d.context] : IsFloat(value)
                /\ \A e \in ParametersOf(registry) : e.context = d.context => e.type = d.type

VARIABLES
    subject,    \* the kind of object
    memory      \* the slots of snapshot_buffer, the last request of parameter

vars == <<subject, port, object, task, memory>>

Synchronisation == {"queue", "mutex", "event", "count"}

Queue == INSTANCE QueuePort
Mutex == INSTANCE MutexPort
Event == INSTANCE EventGroup
Count == INSTANCE CountNotification
Fixed == INSTANCE FixedQueue WITH queue <- object, received <- task
Pool == INSTANCE ObjectPool WITH pool <- object, lent <- task
Snapshot == INSTANCE SnapshotBuffer WITH
    User <- Task, NoUser <- None, buffer <- object, leases <- task
Cascade == INSTANCE CascadedPid WITH cascade <- object, sample <- task
Parameter == INSTANCE ParameterService WITH
    groups <- object, owners <- task, request <- memory

-----------------------------------------------------------------------------
InitSubject ==
    \/ subject = "queue" /\ Queue!Init /\ memory = None
    \/ subject = "mutex" /\ Mutex!Init /\ memory = None
    \/ subject = "event" /\ Event!Init /\ memory = None
    \/ subject = "count" /\ Count!Init /\ memory = None
    \/ subject = "fixed" /\ Fixed!Init /\ port = None /\ memory = None
    \/ subject = "pool" /\ Pool!Init /\ port = None /\ memory = None
    \/ subject = "snapshot" /\ Snapshot!Init /\ port = None
    \/ subject = "cascade" /\ Cascade!Init /\ port = None /\ memory = None
    \/ subject = "parameter" /\ Parameter!Init /\ port = None

Init == subject \in Subjects /\ InitSubject

TaskStep(t) ==
    \/ subject = "queue" /\ Queue!TaskStep(t)
    \/ subject = "mutex" /\ Mutex!TaskStep(t)
    \/ subject = "event" /\ Event!TaskStep(t)
    \/ subject = "count" /\ Count!TaskStep(t)

Synchronise ==
    /\ \/ subject = "queue" /\ Queue!Next
       \/ subject = "mutex" /\ Mutex!Next
       \/ subject = "event" /\ Event!Next
       \/ subject = "count" /\ Count!Next
    /\ UNCHANGED <<subject, memory>>

Serial ==
    /\ \/ subject = "fixed" /\ Fixed!Next /\ UNCHANGED memory
       \/ subject = "pool" /\ Pool!Next /\ UNCHANGED memory
       \/ subject = "snapshot" /\ Snapshot!Next
       \/ subject = "cascade" /\ Cascade!Next /\ UNCHANGED memory
       \/ subject = "parameter" /\ Parameter!Next
    /\ UNCHANGED <<subject, port>>

Next == Synchronise \/ Serial

InCall(t) == subject \in Synchronisation /\ ~At(t, "idle")

(* A task that is inside a call is scheduled again, and its deadline comes: *)
(* from then on a wait does not last, so that one which begins again and    *)
(* again ends with TIMEOUT.                                                 *)
Fairness ==
    \A t \in Task :
        /\ WF_vars(InCall(t) /\ TaskStep(t) /\ UNCHANGED <<subject, memory>>)
        /\ SF_vars(InCall(t) /\ Timeout(t) /\ UNCHANGED <<subject, memory>>)

Spec == Init /\ [][Next]_vars /\ Fairness

-----------------------------------------------------------------------------
(* Properties *)

(* A call with a deadline ends, whatever the others do: taking away again  *)
(* what a task was woken for, signalling before it sleeps, stopping,       *)
(* restarting or deinitialising the object under it.                       *)
EveryCallReturns == \A t \in Task : InCall(t) ~> ~InCall(t)

(* The waiter of a task tells what became of its call: it is WAITING       *)
(* exactly during a blocking call, so that no path out of a call leaves it *)
(* behind unusable, and it is CANCELLED only if the object was stopped     *)
(* during that call.                                                       *)
WaiterTellsOutcome ==
    subject \in Synchronisation =>
        \A t \in Task :
            /\ task[t].waiter = "WAITING" <=> task[t].blocking
            /\ task[t].blocking => ~At(t, "idle")
            /\ At(t, "idle") /\ task[t].status = "CANCELLED" => task[t].stop # "none"

(* Stop cancels the waiters: a call that slept while a queue, an event     *)
(* group or a count was stopped does not succeed any more, unless the      *)
(* object is started again first.                                          *)
StopCancelsWaiters ==
    subject \in Synchronisation \ {"mutex"} =>
        \A t \in Task : At(t, "idle") /\ task[t].stop = "asleep" => task[t].status # "OK"

(* Both queues are channels: no interleaving of tries and lifecycle calls  *)
(* loses, repeats, reorders or invents an element, if nobody uses what a   *)
(* pop gets between the two stores with which a queue is emptied.          *)
ChannelContent ==
    CASE subject = "queue" -> Queue!Content
      [] subject = "fixed" -> Fixed!Content
      [] OTHER             -> << >>
ChannelTaken ==
    [t \in Task \cup {"caller"} |->
        IF subject = "queue" /\ t \in Task THEN Queue!Taken(t)
        ELSE IF subject = "fixed" /\ t = "caller" THEN task ELSE << >>]
ChannelAbstract == INSTANCE Channel WITH
    Taker <- Task \cup {"caller"}, Element <- Element \cup Task,
    content <- ChannelContent, taken <- ChannelTaken
ImplementsChannel == ChannelAbstract!Spec

(* Between two starts, the mutex is lent to one task at most. *)
MutexLentOnce == subject = "mutex" => Mutex!LentOnce

(* The mutex provides mutual exclusion, also across stop and start. *)
MutualExclusion == subject = "mutex" => Mutex!MutualExclusion

(* An event that one waiter consumes is not seen by another. *)
EventsConsumedOnce == [][subject = "event" => Event!ConsumedByOne]_vars

(* No interleaving moves the count out of its bounds. *)
CountInBounds == subject = "count" => object \in 0 .. Maximum

(* The pool's books balance. *)
PoolBooksBalance == subject = "pool" => Pool!BooksBalance

(* A frame that is read stays whole. *)
FramesStayWhole == subject = "snapshot" => Snapshot!FramesStayWhole

(* Both controllers of a cascade have seen the same calls. *)
ControllersInStep == subject = "cascade" => Cascade!ControllersInStep

(* Calls by ID reach the owner they are for, and keep its limits. *)
OwnersServed == [][subject = "parameter" => Parameter!ServesOwner]_vars
=============================================================================
