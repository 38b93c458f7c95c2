------------------------------- MODULE Daemon -------------------------------
(***************************************************************************)
(* The worker process: the init thread of src/daemon/main.cpp, which opens *)
(* Apple's libraries (apple/loader.cpp), initialises the runtime           *)
(* (apple/runtime.cpp) and restores the session (apple/tokens.cpp), beside *)
(* the IPC thread, which serves one frame after the other (ipc.cpp).       *)
(*                                                                         *)
(* The two share the loader and the runtime without a lock: everything the *)
(* handlers use is published by one store to initialized_.  The init       *)
(* thread holds Runtime::mu_ from the beginning to the end of              *)
(* initialize(), across calls of Apple's that may never return.  The       *)
(* accessors of the runtime take mu_ too, after a look at initialized_.    *)
(*                                                                         *)
(* Who is signed in is the business of Account: here a request is          *)
(* authenticated or not.  What a batch does is the business of Decrypt.    *)
(***************************************************************************)
EXTENDS Playback

VARIABLES
  boot,     \* where the init thread is
  lib,      \* the Loader's fields
  rt,       \* the Runtime's fields
  report,   \* what runtime_to_json() has read so far
  dialog,   \* whose thread runs wrapper_dialog_handler(), or "none"
  storage,  \* HTTP messages whose memory is valid
  held      \* HTTP messages Apple's request objects still refer to

daemonVars == <<boot, lib, rt, report, dialog, storage, held>>
vars == <<ipc, playVars, daemonVars>>

\* The optional symbols of FairPlay, by what they are for.
FpsSymbols == {"lease", "session", "key", "sample"}

Messages == {"dev_token", "music_token"}

\* Runtime::initialize() runs, and its lock_guard is alive.
Initializing == {"guid", "context", "interface", "config", "lease",
                 "foothill", "publish", "unlock"}

Opening == {"dlopen", "symbols", "fps", "optional"}

Harvesting == {"login", "storefront", "dev_token", "dev_running", "device",
               "music_token", "music_running"}

BlankReport == [ok |-> FALSE, initialized |-> FALSE, ready |-> FALSE,
                error |-> FALSE, dirs |-> FALSE]

IpcPlaces == {"idle", "ok", "initialized", "ready", "error", "dirs", "settle",
              "context", "reset", "run", "take", "convert", "decrypt", "reply",
              "exited"}

BootStages ==
  Opening \cup Initializing \cup Harvesting \cup {"off", "failed", "done"}

LoaderStates == [core : BOOLEAN, fps : SUBSET FpsSymbols,
                 available : BOOLEAN, ok : BOOLEAN, error : BOOLEAN]

RuntimeStates == [guid : BOOLEAN, context : BOOLEAN, interface : BOOLEAN,
                  loader : BOOLEAN, foothill : BOOLEAN, ready : BOOLEAN,
                  initialized : BOOLEAN]

Reports == [ok : BOOLEAN, initialized : BOOLEAN, ready : BOOLEAN,
            error : BOOLEAN, dirs : BOOLEAN]

TypeOK ==
  /\ PlaybackTypeOK
  /\ ipc \in IpcPlaces /\ boot \in BootStages
  /\ lib \in LoaderStates /\ rt \in RuntimeStates /\ report \in Reports
  /\ dialog \in {"none", "init", "apple"}
  /\ storage \subseteq Messages /\ held \subseteq Messages

\* WRAPPER_APPLE_INIT=0 starts no init thread.
Init ==
  /\ PlaybackInit
  /\ ipc = "idle"
  /\ boot \in {"dlopen", "off"}
  /\ lib = [core |-> FALSE, fps |-> {}, available |-> FALSE,
            ok |-> FALSE, error |-> FALSE]
  /\ rt = [guid |-> FALSE, context |-> FALSE, interface |-> FALSE,
           loader |-> FALSE, foothill |-> FALSE, ready |-> FALSE,
           initialized |-> FALSE]
  /\ report = BlankReport
  /\ dialog = "none"
  /\ storage = {} /\ held = {}

MuFree == boot \notin Initializing

\* An accessor of the runtime gets past its lock_guard.
AlwaysLocks == MuFree
MayRead == rt.initialized => MuFree
-----------------------------------------------------------------------------
(* The init thread: Loader::open().                                        *)

BootGoto(from, to) == boot = from /\ boot' = to

\* A required library does not load: close() takes everything back.
DlopenFails ==
  /\ BootGoto("dlopen", "failed")
  /\ lib' = [lib EXCEPT !.error = TRUE]
  /\ UNCHANGED rt

Dlopen == BootGoto("dlopen", "symbols") /\ UNCHANGED <<lib, rt>>

\* A symbol is missing: open() returns without close().
SymbolMissing ==
  /\ BootGoto("symbols", "failed")
  /\ lib' = [lib EXCEPT !.error = TRUE]
  /\ UNCHANGED rt

ResolveCore ==
  /\ BootGoto("symbols", "fps")
  /\ lib' = [lib EXCEPT !.core = TRUE]
  /\ UNCHANGED rt

\* The FairPlay symbols are used all together or not at all.
KeyIgnored(found) == FpsSymbols \ {"key"} \subseteq found
Complete(found) == found = FpsSymbols

ResolveFps ==
  /\ BootGoto("fps", "optional")
  /\ \E found \in SUBSET FpsSymbols :
       lib' = [lib EXCEPT !.available = Complete(found),
                          !.fps = IF Complete(found) THEN found ELSE {}]
  /\ UNCHANGED rt

\* A destructor that only the conversion of a response uses may be missing.
OpenSucceeds ==
  /\ BootGoto("optional", "guid")
  /\ lib' = [lib EXCEPT !.ok = TRUE, !.error = FALSE]
  /\ UNCHANGED rt

Open == DlopenFails \/ Dlopen \/ SymbolMissing \/ ResolveCore \/ ResolveFps
        \/ OpenSucceeds
-----------------------------------------------------------------------------
(* The init thread: Runtime::initialize(), which holds mu_.                *)

\* The device info has not nine parts, or Apple returns a null object:
\* initialize() returns false, and nobody calls it again.
InitializeFails ==
  /\ boot \in {"guid", "context", "interface"}
  /\ boot' = "failed"
  /\ UNCHANGED <<lib, rt>>

InitDnsAndFoothill ==
  /\ BootGoto("guid", "context")
  /\ rt' = [rt EXCEPT !.guid = TRUE]
  /\ UNCHANGED lib

InitRequestContext ==
  /\ BootGoto("context", "interface")
  /\ rt' = [rt EXCEPT !.context = TRUE]
  /\ UNCHANGED lib

InitPresentationInterface ==
  /\ BootGoto("interface", "config")
  /\ rt' = [rt EXCEPT !.interface = TRUE]
  /\ UNCHANGED lib

\* base_dir_, device_info_ and loader_.
ConfiguredAndPublished == [rt EXCEPT !.loader = TRUE, !.initialized = TRUE]
Configured == [rt EXCEPT !.loader = TRUE]

Configure ==
  /\ BootGoto("config", IF lib.available THEN "lease" ELSE "publish")
  /\ rt' = Configured
  /\ UNCHANGED lib

\* requestLease() returns, if Apple's server ever answers; a dialog it shows
\* meanwhile is handled in the same thread.
LeaseReturns ==
  /\ BootGoto("lease", "foothill")
  /\ dialog # "init"
  /\ UNCHANGED <<lib, rt>>

FoothillInstance ==
  /\ BootGoto("foothill", "publish")
  /\ \E found \in BOOLEAN :
       rt' = [rt EXCEPT !.foothill = found, !.ready = found]
  /\ UNCHANGED lib

Publish ==
  /\ BootGoto("publish", "unlock")
  /\ rt' = [rt EXCEPT !.initialized = TRUE]
  /\ UNCHANGED lib

Unlock == BootGoto("unlock", "login") /\ UNCHANGED <<lib, rt>>

Initialize == InitializeFails \/ InitDnsAndFoothill \/ InitRequestContext
              \/ InitPresentationInterface \/ Configure \/ LeaseReturns
              \/ FoothillInstance \/ Publish
-----------------------------------------------------------------------------
(* The init thread: sign-in from the environment, then harvest_all().      *)

HarvestFails ==
  /\ boot \in {"login", "storefront", "dev_running", "device", "music_running"}
  /\ boot' = "done"
  /\ UNCHANGED <<storage, held>>

\* The sign-in is over, or none was asked for: restore.
LoginOver == BootGoto("login", "storefront") /\ UNCHANGED <<storage, held>>

HaveStorefront ==
  BootGoto("storefront", "dev_token") /\ UNCHANGED <<storage, held>>

HaveGuid == BootGoto("device", "music_token") /\ UNCHANGED <<storage, held>>

\* HTTPMessageHolder::init(), URLRequest::run(): Apple refers to message m.
Send(m, from, to) ==
  /\ BootGoto(from, to)
  /\ storage' = storage \cup {m}
  /\ held' = held \cup {m}

\* The holder goes out of scope; the message is on the heap and stays.
OnTheStack(m) == storage \ {m}
OutOfScope(m) == storage

Received(m, from, to) ==
  /\ BootGoto(from, to)
  /\ storage' = OutOfScope(m)
  /\ UNCHANGED held

Harvest ==
  \/ HarvestFails \/ LoginOver \/ HaveStorefront \/ HaveGuid
  \/ Send("dev_token", "dev_token", "dev_running")
  \/ Received("dev_token", "dev_running", "device")
  \/ Send("music_token", "music_token", "music_running")
  \/ Received("music_token", "music_running", "done")

\* A later request, or none, makes Apple drop its reference to message m.
AppleDrops(m) ==
  /\ m \in held
  /\ <<m, boot>> \notin {<<"dev_token", "dev_running">>,
                        <<"music_token", "music_running">>}
  /\ held' = held \ {m}
  /\ UNCHANGED <<ipc, playVars, boot, lib, rt, report, dialog, storage>>

BootStep ==
  /\ \/ (Open \/ Initialize \/ Unlock) /\ UNCHANGED <<storage, held>>
     \/ Harvest /\ UNCHANGED <<lib, rt>>
  /\ UNCHANGED <<ipc, playVars, report, dialog>>
-----------------------------------------------------------------------------
(* wrapper_dialog_handler(), once it is registered.                        *)

\* Apple shows a dialog: from within requestLease(), or in a thread of its
\* own.
DialogShown ==
  /\ rt.interface /\ dialog = "none"
  /\ dialog' \in {"apple"} \cup (IF boot = "lease" THEN {"init"} ELSE {})
  /\ UNCHANGED <<ipc, playVars, boot, lib, rt, report, storage, held>>

\* It returns at once without a loader; without an interface, too, after
\* presentation_interface_copy().
DialogHandled ==
  /\ dialog # "none"
  /\ rt.loader => MayRead
  /\ dialog' = "none"
  /\ UNCHANGED <<ipc, playVars, boot, lib, rt, report, storage, held>>
-----------------------------------------------------------------------------
(* The IPC thread: read_frame(), dispatch(), write_frame().                *)

IpcGoto(from, to) == ipc = from /\ ipc' = to

\* Health and Me: runtime_to_json() reads one field after the other.
AskReport ==
  /\ IpcGoto("idle", "ok")
  /\ UNCHANGED <<playVars, daemonVars>>

Read(from, to, field, value) ==
  /\ IpcGoto(from, to)
  /\ report' = [report EXCEPT ![field] = value]
  /\ UNCHANGED <<playVars, boot, lib, rt, dialog, storage, held>>

ReadOk          == Read("ok", "initialized", "ok", lib.ok)
ReadInitialized == Read("initialized", "ready", "initialized", rt.initialized)
ReadReady       == Read("ready", "error", "ready", rt.ready)
ReadError       == Read("error", "dirs", "error", ~lib.ok /\ lib.error)

\* base_dir() and device_info(), when initialized() holds by now.
ReadDirs ==
  /\ rt.initialized => MayRead
  /\ Read("dirs", "reply", "dirs", rt.initialized /\ rt.loader)

ReportStep == ReadOk \/ ReadInitialized \/ ReadReady \/ ReadError \/ ReadDirs

\* The handlers of the account: refused, or done and, after start_login() or
\* submit_2fa(), waiting for a settled state for a bounded time.  A logout and a
\* code do not ask for the runtime, but without it no login awaits a code.
AskAccount ==
  /\ ipc = "idle"
  /\ ipc' = "reply" \/ (ipc' = "settle" /\ rt.initialized)
  /\ UNCHANGED <<playVars, daemonVars>>

Settled == IpcGoto("settle", "reply") /\ UNCHANGED <<playVars, daemonVars>>

\* handle_playback() lets an authenticated request through.
AskPlayback(c) ==
  /\ IpcGoto("idle", "context")
  /\ rt.initialized
  /\ c \notin made
  /\ call' = c
  /\ UNCHANGED <<dict, body, captureVars, daemonVars>>

\* fetch_playback_json() looks again, and copies the context.
CopyContext ==
  /\ ipc = "context" /\ MayRead
  /\ ipc' = IF lib.ok /\ rt.initialized /\ rt.context THEN "reset" ELSE "reply"
  /\ UNCHANGED <<playVars, daemonVars>>

\* handle_decrypt_batch() lets an authenticated request through.
DecryptServed == rt.initialized /\ rt.ready

AskDecrypt ==
  /\ IpcGoto("idle", "decrypt")
  /\ DecryptServed
  /\ UNCHANGED <<playVars, daemonVars>>

\* decrypt_samples() returns, if Apple's key server ever answers.
DecryptReturns ==
  IpcGoto("decrypt", "reply") /\ UNCHANGED <<playVars, daemonVars>>

\* 400, 401, 500 and 503, and opcodes nobody knows.
Refuse == IpcGoto("idle", "reply") /\ UNCHANGED <<playVars, daemonVars>>

Forget == call' = None /\ body' = None /\ stray' = {} /\ report' = BlankReport

\* write_frame(); a closed pipe ends the worker.
Reply ==
  /\ ipc = "reply"
  /\ ipc' \in {"idle", "exited"}
  /\ Forget
  /\ UNCHANGED <<dict, made, cf_dict, refs, storing, fires, boot, lib, rt,
                 dialog, storage, held>>

\* OpShutdown, a closed pipe, a frame that is too long or has no header.
Exit == IpcGoto("idle", "exited") /\ UNCHANGED <<playVars, daemonVars>>

\* What the IPC thread does on its own, once it has a request.
IpcStep ==
  \/ ReportStep \/ Settled \/ CopyContext \/ Reply
  \/ Fetch /\ UNCHANGED daemonVars

\* Frames arrive, and Apple's calls return, when they do.
IpcEvent ==
  \/ AskReport \/ AskAccount \/ AskDecrypt \/ Refuse \/ Exit
  \/ \E c \in Calls : AskPlayback(c)
  \/ RunReturns /\ UNCHANGED daemonVars
  \/ DecryptReturns

\* The process and all its threads end with the IPC thread.
Next ==
  /\ ipc # "exited"
  /\ \/ BootStep \/ DialogShown \/ DialogHandled
     \/ \E m \in Messages : AppleDrops(m)
     \/ Preprocessor /\ UNCHANGED daemonVars
     \/ IpcStep \/ IpcEvent

\* Every thread is scheduled; nothing is assumed of Apple's calls.
Fairness ==
  /\ WF_vars(IpcStep)
  /\ WF_vars(DialogHandled)
  /\ WF_vars(Unlock /\ BootStep)

Spec == Init /\ [][Next]_vars /\ Fairness
-----------------------------------------------------------------------------
(* Properties.                                                             *)

\* Once initialized_ is set, nothing that the handlers read without a lock
\* changes any more: the store publishes the loader and the runtime whole
\* (runtime.cpp:299-316, loader.hpp:216).
PublishedWhole == [][rt.initialized => UNCHANGED <<lib, rt>>]_vars

\* No thread calls through a function pointer that was not resolved, or on
\* an object that is not there: neither the init thread, nor a handler that
\* was let through while it is still at work (loader.cpp:383, ipc.cpp:501).
CallsResolved ==
  /\ boot \in Initializing \cup Harvesting => lib.core
  /\ boot = "lease" => "lease" \in lib.fps
  /\ boot = "foothill" => "session" \in lib.fps
  /\ ipc \in {"context", "reset", "run", "take", "convert"} =>
       lib.core /\ rt.context /\ rt.interface
  /\ ipc = "decrypt" => {"key", "sample"} \subseteq lib.fps /\ rt.foothill

\* Apple never refers to an HTTP message whose memory is gone
\* (tokens.cpp:101).
MessagesOutlive == held \subseteq storage

\* Runtime::mu_, which the init thread holds across Apple's calls, keeps an
\* accessor only from the store to initialized_ to the end of initialize(), and
\* never one in the init thread itself (main.cpp:235, runtime.cpp:459).
LockHeldBriefly ==
  /\ MayRead \/ boot = "unlock"
  /\ dialog = "init" => MayRead

\* No handler waits for the init thread, wherever in Apple's libraries that
\* is stuck with mu_ held: a request is answered unless it is in a call of
\* Apple's of its own, and a dialog handler returns, in the init thread too
\* (main.cpp:235, runtime.cpp:459).
Reached == ipc \in {"idle", "run", "decrypt", "exited"}

HandlersReturn ==
  /\ (ipc # "idle") ~> Reached
  /\ (dialog # "none") ~> (dialog = "none" \/ ipc = "exited")

\* What a client can tell of the process.
RuntimeSeen ==
  IF rt.initialized THEN "up"
  ELSE IF boot \in {"failed", "off"} THEN "failed" ELSE "starting"

Serving ==
  CASE ipc = "idle" -> "nothing"
    [] ipc \in {"ok", "initialized", "ready", "error", "dirs"} -> "report"
    [] ipc = "settle" -> "account"
    [] ipc \in {"context", "reset", "run", "take", "convert"} -> "playback"
    [] ipc = "decrypt" -> "decrypt"
    [] ipc = "reply" -> "answering"
    [] ipc = "exited" -> "ended"

Said ==
  IF ipc # "reply" THEN {}
  ELSE (IF report.initialized THEN {"up"} ELSE {})
         \cup (IF report.dirs THEN {"directories"} ELSE {})
         \cup (IF report.ready THEN {"decrypts"} ELSE {})
         \cup (IF report.error THEN {"error"} ELSE {})

Service == INSTANCE RequestService
             WITH runtime <- RuntimeSeen,
                  decrypts <- rt.initialized /\ rt.ready,
                  serving <- Serving,
                  asked <- made \cup ({call} \ {None}),
                  late <- stray,
                  said <- Said,
                  shown <- body

\* The worker keeps the promise of RequestService, although its threads share
\* everything without a lock: who is served, what a report of five reads says,
\* and whose dictionary an answer shows (ipc.cpp:194-211, :381-535,
\* playback.cpp:246-318).
ServiceImplemented == Service!Spec
=============================================================================
