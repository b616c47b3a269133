---------------------------- MODULE WorkerPatches ----------------------------
(***************************************************************************)
(* mixed_cuts/zmq_socket_patch.py in one Ray worker: the hook, which runs  *)
(* when the worker starts and may run again, patches the class of a module *)
(* that is there already or leaves a one-shot finder on sys.meta_path for  *)
(* its import; lora_sync_patch.py installs itself in the same way.  A path *)
(* of verl's weight-sync socket is [tags, job]: what stands before Ray's   *)
(* job id, and that id, the same in every run with its own Ray instance.   *)
(***************************************************************************)
EXTENDS Integers, Sequences

CONSTANTS
    SafeCharacters,     \* what may stand in the path
    MaxTag              \* characters of the run name that do: 40
ASSUME WorkerPatchesAssumption == MaxTag \in Nat

Targets == {"sender", "server"}

\* run_tag
RunTag(name) ==
    LET safe == [i \in DOMAIN name |-> IF name[i] \in SafeCharacters THEN name[i] ELSE "_"]
    IN  SubSeq(safe, 1, IF Len(name) < MaxTag THEN Len(name) ELSE MaxTag)

\* A worker: the targets with a finder, those that are loaded, how often the __init__ of their class
\* is wrapped, whether the hook has run, the targets whose finder was used up by an import that
\* failed, and the last path of each side: of a sender, and of the vLLM workers a server spawns.
NoPath == [tags |-> <<>>, job |-> "none"]
NewWorker ==
    [finders |-> {}, loaded |-> {}, wraps |-> [t \in Targets |-> 0], hooked |-> FALSE, lost |-> {},
     path |-> [t \in Targets |-> NoPath]]

\* Mutant: a wrapped __init__ is wrapped again.
WrapInitAgain(worker, t) == [worker EXCEPT !.wraps[t] = @ + 1]

\* _wrap_init, in apply_sender and apply_server.
WrapInit(worker, t) == IF worker.wraps[t] > 0 THEN worker ELSE [worker EXCEPT !.wraps[t] = @ + 1]

\* install
InstallOne(worker, t) ==
    IF t \in worker.loaded THEN WrapInit(worker, t)
    ELSE [worker EXCEPT !.finders = @ \cup {t}, !.lost = @ \ {t}]
Install(worker) == [InstallOne(InstallOne(worker, "sender"), "server") EXCEPT !.hooked = TRUE]

\* An import executes the module and then patches it; the finder is gone as soon as it has found the
\* module, also when the module raises.
Import(worker, t, raises) ==
    LET found == [worker EXCEPT !.finders = @ \ {t}]
        patched == t \in worker.finders
    IN  IF raises THEN [found EXCEPT !.lost = IF patched THEN @ \cup {t} ELSE @]
        ELSE LET loaded == [found EXCEPT !.loaded = @ \cup {t}]
             IN  IF patched THEN WrapInit(loaded, t) ELSE loaded

\* ServerAdapter.__init__ and vLLMHttpServer.__init__ make their path, or VERL_RAY_JOB_ID, anew; each
\* wrapper puts the tag before it, the server's only if it does not start with it.
MadePath(worker, t, tag) ==
    LET times == IF tag = <<>> THEN 0 ELSE IF t = "server" /\ worker.wraps[t] > 1 THEN 1 ELSE worker.wraps[t]
    IN  [worker EXCEPT !.path[t] = [tags |-> [i \in 1 .. times |-> tag], job |-> "01000000"]]

----------------------------------------------------------------------------
\* "Give each concurrent run its own vLLM weight-transfer socket": in whatever order the hook and the
\* imports come, a sender and a server made after the hook use one path, that of their run's tag;
\* unless the first import of the module failed and the hook has not run again.
SocketsAreOwn(worker, name) ==
    LET tag == RunTag(name)
    IN  \A t \in Targets \ worker.lost :
            worker.path[t] = NoPath \/ worker.path[t].tags = IF tag = <<>> THEN <<>> ELSE <<tag>>
=============================================================================
