---------------------------- MODULE DaemonProofs ----------------------------
(***************************************************************************)
(* Proofs about Daemon, for any number of requests and preprocessor calls. *)
(* The runtime's flags follow the init thread (BootInv), so what a handler *)
(* was let through by still holds at its last step (IpcInv), and what a    *)
(* report has read of an initialised runtime stays true until it is sent   *)
(* (ReportInv).  The dictionary of the capture is counted (RefsOwned), and *)
(* after the reset it is of the current request or of a stray one          *)
(* (CaptureInv).                                                           *)
(*                                                                         *)
(* What a client sees of all this are the steps of RequestService.  The    *)
(* init thread shows itself only when it publishes or fails; who is served *)
(* and who came late is what ServeInv adds.                                *)
(***************************************************************************)
EXTENDS Daemon, TLAPS

\* The init thread is past the store to initialized_.
Past == Harvesting \cup {"unlock", "done"}

BootInv ==
  /\ rt.initialized <=> boot \in Past
  /\ boot \in {"fps", "optional"} \cup Initializing \cup Past => lib.core
  /\ boot \in Initializing \cup Past => lib.ok
  /\ boot \in {"interface"} => rt.context
  /\ boot \in {"config", "lease", "foothill", "publish"} \cup Past =>
       rt.context /\ rt.interface
  /\ boot \in {"lease", "foothill", "publish"} \cup Past => rt.loader
  /\ lib.available => lib.fps = FpsSymbols
  /\ boot \in {"lease", "foothill"} => lib.available
  /\ rt.ready =>
       rt.foothill /\ lib.available /\ boot \in {"publish"} \cup Past
  /\ lib.error => boot = "failed"

IpcInv ==
  /\ ipc \in {"context", "reset", "run", "take", "convert"} =>
       rt.initialized /\ call \in Calls
  /\ ipc = "decrypt" => rt.initialized /\ rt.ready

ReportInv ==
  /\ ipc \notin {"initialized", "ready", "error", "dirs", "reply"} =>
       report = BlankReport
  /\ report.initialized => rt.initialized
  /\ ipc = "initialized" => ~report.initialized
  /\ ipc \in {"error", "dirs", "reply"} /\ report.initialized =>
       report.ready = rt.ready
  /\ ipc = "reply" /\ report.initialized => report.dirs
  /\ report.error => boot = "failed"

\* An answer shows another request's dictionary only if the preprocessor of
\* that one came while this one ran: what came before is discarded
\* (playback.cpp:246-255).
OwnDict == ipc = "reply" /\ body \in Calls => body = call \/ body \in stray

\* An answer that says "initialized" says for good whether decryption is
\* available, and names the directories; an error is shown only of a load
\* that failed (ipc.cpp:194-211).
ReportFinal == ipc = "reply" =>
  /\ report.initialized => report.ready = rt.ready /\ report.dirs
  /\ report.error => boot = "failed" /\ ~rt.initialized

CaptureInv ==
  /\ ipc # "convert" => dict = None
  /\ ipc # "reply" => body = None
  /\ ipc \in {"run", "take"} /\ cf_dict # None =>
       cf_dict = call \/ cf_dict \in stray
  /\ ipc = "convert" /\ dict # None => dict = call \/ dict \in stray
  /\ OwnDict

IInv == TypeOK /\ BootInv /\ IpcInv /\ ReportInv /\ RefsOwned /\ CaptureInv
        /\ MessagesOutlive
-----------------------------------------------------------------------------
(* Who does what: every step is one of four kinds, with what it leaves.    *)

\* The init thread.
BootKind ==
  BootStep /\ UNCHANGED <<ipc, call, dict, body, made, cf_dict, refs, storing,
                         fires, stray, report, dialog>>

\* The dialog handler, and Apple with the messages.
AppleKind ==
  /\ DialogShown \/ DialogHandled \/ \E m \in Messages : AppleDrops(m)
  /\ UNCHANGED <<ipc, call, dict, body, made, cf_dict, refs, storing,
                 fires, stray, report, boot, lib, rt, storage>>

PreKind ==
  /\ Preprocessor
  /\ UNCHANGED <<ipc, call, dict, body, made, boot, lib, rt, report, dialog,
                 storage, held>>

IpcKind ==
  (IpcStep \/ IpcEvent) /\ UNCHANGED <<boot, lib, rt, dialog, storage, held>>

LEMMA StepKinds ==
  ASSUME [Next]_vars
  PROVE  BootKind \/ AppleKind \/ PreKind \/ IpcKind \/ UNCHANGED vars
<1>. USE DEF vars, playVars, captureVars, fetchVars, daemonVars
<1>1. BootStep => BootKind
  BY DEF BootStep, BootKind
<1>2. DialogShown \/ DialogHandled \/ (\E m \in Messages : AppleDrops(m))
        => AppleKind
  BY DEF AppleKind, DialogShown, DialogHandled, AppleDrops
<1>3. Preprocessor /\ UNCHANGED daemonVars => PreKind
  BY DEF PreKind, Preprocessor, Preprocess, Store
<1>4. IpcStep => IpcKind
  BY DEF IpcKind, IpcStep, ReportStep, ReadOk, ReadInitialized, ReadReady,
         ReadError, ReadDirs, Read, Settled, CopyContext, Reply, Fetch,
         IpcGoto
<1>5. IpcEvent => IpcKind
  BY DEF IpcKind, IpcEvent, AskReport, AskAccount, AskDecrypt, Refuse, Exit,
         AskPlayback, DecryptReturns, IpcGoto
<1>. QED BY <1>1, <1>2, <1>3, <1>4, <1>5 DEF Next

\* What a variable of the init thread may become, for the other kinds.
LEMMA OthersKeepBoot ==
  ASSUME AppleKind \/ PreKind \/ IpcKind \/ UNCHANGED vars
  PROVE  UNCHANGED <<boot, lib, rt, storage>>
BY DEF AppleKind, PreKind, IpcKind, vars, daemonVars
-----------------------------------------------------------------------------
(* The init thread and what it publishes.                                  *)

\* The flags follow the init thread: every step of it sets what its next
\* stage relies on.
LEMMA BootInvStep ==
  ASSUME TypeOK, BootInv, [Next]_vars
  PROVE  BootInv'
<1>. USE DEF BootInv, Past, Initializing, Harvesting, Opening, TypeOK,
             BootGoto, LoaderStates, RuntimeStates
<1>1. CASE BootKind
  <2>. USE <1>1 DEF BootKind, BootStep
  <2>1. CASE Open
    <3>1. CASE DlopenFails \/ SymbolMissing
      BY <3>1 DEF DlopenFails, SymbolMissing
    <3>2. CASE Dlopen \/ ResolveCore
      BY <3>2 DEF Dlopen, ResolveCore
    <3>3. CASE ResolveFps
      BY <3>3 DEF ResolveFps, Complete
    <3>4. CASE OpenSucceeds
      BY <3>4 DEF OpenSucceeds
    <3>. QED BY <2>1, <3>1, <3>2, <3>3, <3>4 DEF Open
  <2>2. CASE Initialize
    <3>1. CASE InitializeFails
      BY <3>1 DEF InitializeFails
    <3>2. CASE InitDnsAndFoothill \/ InitRequestContext
               \/ InitPresentationInterface
      BY <3>2 DEF InitDnsAndFoothill, InitRequestContext,
                  InitPresentationInterface
    <3>3. CASE Configure
      BY <3>3 DEF Configure, Configured
    <3>4. CASE LeaseReturns
      BY <3>4 DEF LeaseReturns
    <3>5. CASE FoothillInstance
      BY <3>5 DEF FoothillInstance
    <3>6. CASE Publish
      BY <3>6 DEF Publish
    <3>. QED BY <2>2, <3>1, <3>2, <3>3, <3>4, <3>5, <3>6 DEF Initialize
  <2>3. CASE Unlock
    BY <2>3 DEF Unlock
  <2>4. CASE Harvest /\ UNCHANGED <<lib, rt>>
    BY <2>4 DEF Harvest, HarvestFails, LoginOver, HaveStorefront, HaveGuid,
                Send, Received
  <2>. QED BY <2>1, <2>2, <2>3, <2>4
<1>2. CASE ~BootKind
  <2>1. UNCHANGED <<boot, lib, rt>>
    BY <1>2, StepKinds, OthersKeepBoot
  <2>. QED BY <2>1
<1>. QED BY <1>1, <1>2

\* Past the store, the init thread changes neither the loader nor the
\* runtime, and it never turns to failed.
LEMMA Frozen ==
  ASSUME BootInv, rt.initialized, [Next]_vars
  PROVE  UNCHANGED <<lib, rt>>
<1>1. boot \in Past
  BY DEF BootInv
<1>2. CASE BootKind
  <2>1. ~Open /\ ~Initialize
    BY <1>1 DEF Past, Harvesting, Open, DlopenFails, Dlopen, SymbolMissing,
         ResolveCore, ResolveFps, OpenSucceeds, Initialize, InitializeFails,
         InitDnsAndFoothill, InitRequestContext, InitPresentationInterface,
         Configure, LeaseReturns, FoothillInstance, Publish, BootGoto
  <2>. QED BY <1>2, <2>1 DEF BootKind, BootStep, Unlock
<1>3. CASE ~BootKind
  BY <1>3, StepKinds, OthersKeepBoot
<1>. QED BY <1>2, <1>3

\* A failed start stays one.
LEMMA FailedStays ==
  ASSUME boot = "failed", [Next]_vars
  PROVE  boot' = "failed"
<1>1. CASE BootKind
  BY <1>1 DEF BootKind, BootStep, Open, DlopenFails, Dlopen, SymbolMissing,
       ResolveCore, ResolveFps, OpenSucceeds, Initialize, InitializeFails,
       InitDnsAndFoothill, InitRequestContext, InitPresentationInterface,
       Configure, LeaseReturns, FoothillInstance, Publish, BootGoto, Unlock,
       Harvest, HarvestFails, LoginOver, HaveStorefront, HaveGuid, Send,
       Received
<1>2. CASE ~BootKind
  BY <1>2, StepKinds, OthersKeepBoot
<1>. QED BY <1>1, <1>2

\* No step takes the memory of a message that Apple refers to.
LEMMA MessagesStep ==
  ASSUME MessagesOutlive, [Next]_vars
  PROVE  MessagesOutlive'
<1>. USE DEF MessagesOutlive
<1>1. CASE BootKind
  BY <1>1 DEF BootKind, BootStep, Harvest, HarvestFails, LoginOver,
       HaveStorefront, HaveGuid, Send, Received, OutOfScope
<1>2. CASE AppleKind
  <2>1. held' \subseteq held
    BY <1>2 DEF AppleKind, DialogShown, DialogHandled, AppleDrops
  <2>. QED BY <1>2, <2>1 DEF AppleKind
<1>3. CASE PreKind \/ IpcKind \/ UNCHANGED vars
  BY <1>3 DEF PreKind, IpcKind, vars, daemonVars
<1>. QED BY <1>1, <1>2, <1>3, StepKinds
-----------------------------------------------------------------------------
(* The IPC thread.                                                         *)

\* The other threads leave the IPC thread where it is.
LEMMA OthersKeepIpc ==
  ASSUME BootKind \/ AppleKind \/ PreKind \/ UNCHANGED vars
  PROVE  UNCHANGED <<ipc, call, report, dict, body>>
BY DEF BootKind, AppleKind, PreKind, vars, playVars, fetchVars, daemonVars

\* A handler that was let through keeps what it was let through by.
LEMMA IpcInvStep ==
  ASSUME BootInv, IpcInv, [Next]_vars
  PROVE  IpcInv'
<1>. USE DEF IpcInv
<1>1. rt.initialized => UNCHANGED rt
  BY Frozen
<1>2. CASE IpcKind
  <2>1. UNCHANGED rt
    BY <1>2 DEF IpcKind
  <2>2. CASE IpcStep
    BY <2>1, <2>2 DEF IpcStep, ReportStep, ReadOk, ReadInitialized,
         ReadReady, ReadError, ReadDirs, Read, Settled, CopyContext, Reply,
         Fetch, Reset, Take, Convert, IpcGoto, playVars, fetchVars, Forget
  <2>3. CASE IpcEvent
    BY <2>1, <2>3 DEF IpcEvent, AskReport, AskAccount, AskDecrypt, Refuse,
         Exit, AskPlayback, RunReturns, DecryptReturns, DecryptServed,
         IpcGoto, playVars, fetchVars
  <2>. QED BY <1>2, <2>2, <2>3 DEF IpcKind
<1>3. CASE ~IpcKind
  <2>1. UNCHANGED <<ipc, call>>
    BY <1>3, StepKinds, OthersKeepIpc
  <2>. QED BY <1>1, <2>1
<1>. QED BY <1>2, <1>3

\* What has been read stays true until the report is sent.
LEMMA ReportInvStep ==
  ASSUME TypeOK, BootInv, ReportInv, [Next]_vars
  PROVE  ReportInv'
<1>. USE DEF ReportInv
<1>1. rt.initialized => UNCHANGED rt
  BY Frozen
<1>2. boot = "failed" => boot' = "failed"
  BY FailedStays
<1>3. CASE IpcKind
  <2>. UNCHANGED <<boot, rt, lib>>
    BY <1>3 DEF IpcKind
  <2>1. CASE ReportStep
    <3>. USE DEF Read, IpcGoto, TypeOK, Reports
    <3>1. CASE ReadOk BY <3>1 DEF ReadOk, BlankReport
    <3>2. CASE ReadInitialized BY <3>2 DEF ReadInitialized
    <3>3. CASE ReadReady BY <3>3 DEF ReadReady
    <3>4. CASE ReadError BY <3>4 DEF ReadError, BootInv
    <3>5. CASE ReadDirs BY <3>5 DEF ReadDirs, BootInv, Initializing, MayRead
    <3>. QED BY <2>1, <3>1, <3>2, <3>3, <3>4, <3>5 DEF ReportStep
  <2>2. CASE Reply
    BY <2>2 DEF Reply, Forget, BlankReport
  <2>3. CASE Settled \/ CopyContext \/ (Fetch /\ UNCHANGED daemonVars)
    BY <2>3 DEF Settled, CopyContext, Fetch, Reset, Take, Convert,
         IpcGoto, daemonVars, BlankReport
  <2>4. CASE IpcEvent
    BY <2>4 DEF IpcEvent, AskReport, AskAccount, AskDecrypt, Refuse, Exit,
         AskPlayback, RunReturns, DecryptReturns, IpcGoto, daemonVars,
         BlankReport
  <2>. QED BY <1>3, <2>1, <2>2, <2>3, <2>4 DEF IpcKind, IpcStep
<1>4. CASE ~IpcKind
  <2>1. UNCHANGED <<ipc, report>>
    BY <1>4, StepKinds, OthersKeepIpc
  <2>. QED BY <1>1, <1>2, <2>1
<1>. QED BY <1>3, <1>4
-----------------------------------------------------------------------------
(* The capture and its references.                                         *)

\* Outside the preprocessor and the handler of /playback, nobody touches it.
LEMMA CaptureKept ==
  ASSUME [Next]_vars, ~Preprocessor, ~Fetch
  PROVE  UNCHANGED <<dict, cf_dict, refs, storing>>
<1>1. CASE IpcKind
  BY <1>1 DEF IpcKind, IpcStep, ReportStep, ReadOk, ReadInitialized,
       ReadReady, ReadError, ReadDirs, Read, Settled, CopyContext, Reply,
       IpcEvent, AskReport, AskAccount, AskDecrypt, Refuse, Exit,
       AskPlayback, RunReturns, DecryptReturns, playVars, fetchVars,
       captureVars
<1>2. CASE ~IpcKind
  BY <1>2, StepKinds DEF BootKind, AppleKind, PreKind, vars, playVars,
       fetchVars, captureVars
<1>. QED BY <1>1, <1>2

\* A retain or release of one owner is a reference more or less.
LEMMA RefsStep ==
  ASSUME PlaybackAssumption, PlaybackTypeOK, RefsOwned, CaptureInv,
         [Next]_vars
  PROVE  RefsOwned' /\ refs' \in [Calls -> Nat] /\ storing' \in [Calls -> Nat]
<1>. USE DEF RefsOwned, PlaybackTypeOK, Count, PlaybackAssumption
<1>1. ASSUME NEW c \in Calls, Preprocess(c)
      PROVE  RefsOwned' /\ refs' \in [Calls -> Nat]
               /\ storing' \in [Calls -> Nat]
  BY <1>1 DEF Preprocess, fetchVars
<1>2. ASSUME NEW c \in Calls, Store(c)
      PROVE  RefsOwned' /\ refs' \in [Calls -> Nat]
               /\ storing' \in [Calls -> Nat]
  <2>1. storing' = [storing EXCEPT ![c] = @ - 1] /\ storing[c] > 0
          /\ cf_dict' = c /\ dict' = dict
          /\ refs' = IF cf_dict = None THEN refs
                     ELSE [refs EXCEPT ![cf_dict] = @ - 1]
    BY <1>2 DEF Store, Replaced, Release, fetchVars
  <2>2. storing' \in [Calls -> Nat]
    BY <2>1
  <2>3. \A d \in Calls : refs'[d] = refs[d] - Count(cf_dict = d)
    BY <2>1
  <2>4. \A d \in Calls : storing'[d] = storing[d] - Count(d = c)
    BY <2>1
  <2>5. RefsOwned'
    BY <2>1, <2>3, <2>4
  <2>6. \A d \in Calls : refs'[d] \in Nat
    BY <2>2, <2>5
  <2>7. refs' \in [Calls -> Nat]
    BY <2>1, <2>6
  <2>. QED BY <2>2, <2>5, <2>7
<1>3. ASSUME Reset
      PROVE  RefsOwned' /\ refs' \in [Calls -> Nat] /\ UNCHANGED storing
  <2>1. cf_dict' = None /\ dict' = dict /\ UNCHANGED storing
          /\ refs' = IF cf_dict = None THEN refs
                     ELSE [refs EXCEPT ![cf_dict] = @ - 1]
    BY <1>3 DEF Reset, Cleared, Release, fetchVars
  <2>2. \A d \in Calls : refs'[d] = refs[d] - Count(cf_dict = d)
    BY <2>1
  <2>3. RefsOwned'
    BY <2>1, <2>2
  <2>4. \A d \in Calls : refs'[d] \in Nat
    BY <2>1, <2>3
  <2>. QED BY <2>1, <2>3, <2>4
<1>4. ASSUME Take
      PROVE  RefsOwned' /\ UNCHANGED <<refs, storing>>
  BY <1>4 DEF Take, Moved, CaptureInv
<1>5. ASSUME Convert
      PROVE  RefsOwned' /\ refs' \in [Calls -> Nat] /\ UNCHANGED storing
  <2>1. dict' = None /\ cf_dict' = cf_dict /\ UNCHANGED storing
          /\ refs' = IF dict = None THEN refs
                     ELSE [refs EXCEPT ![dict] = @ - 1]
    BY <1>5 DEF Convert, Release
  <2>2. \A d \in Calls : refs'[d] = refs[d] - Count(dict = d)
    BY <2>1
  <2>3. RefsOwned'
    BY <2>1, <2>2
  <2>4. \A d \in Calls : refs'[d] \in Nat
    BY <2>1, <2>3
  <2>. QED BY <2>1, <2>3, <2>4
<1>6. CASE ~Preprocessor /\ ~Fetch
  BY <1>6, CaptureKept
<1>. QED BY <1>1, <1>2, <1>3, <1>4, <1>5, <1>6 DEF Preprocessor, Fetch

\* From the reset on, what is captured is of this request or of a stray one.
LEMMA CaptureStep ==
  ASSUME PlaybackAssumption, TypeOK, IpcInv, CaptureInv, [Next]_vars
  PROVE  CaptureInv'
<1>. USE DEF CaptureInv, OwnDict
<1>1. CASE PreKind
  <2>1. PICK c \in Calls : Preprocess(c) \/ Store(c)
    BY <1>1 DEF PreKind, Preprocessor
  <2>2. CASE Preprocess(c)
    BY <2>2 DEF Preprocess, fetchVars
  <2>3. CASE Store(c)
    BY <2>3 DEF Store, fetchVars
  <2>. QED BY <2>1, <2>2, <2>3
<1>2. CASE IpcStep
  <2>1. CASE ReportStep
    BY <2>1 DEF ReportStep, ReadOk, ReadInitialized, ReadReady, ReadError,
         ReadDirs, Read, IpcGoto, playVars, fetchVars, captureVars
  <2>2. CASE Settled \/ CopyContext
    BY <2>2 DEF Settled, CopyContext, IpcGoto, playVars, fetchVars,
         captureVars, PlaybackAssumption
  <2>3. CASE Reply
    BY <2>3 DEF Reply, Forget, PlaybackAssumption
  <2>4. CASE Reset
    BY <2>4 DEF Reset, Cleared, fetchVars
  <2>5. CASE Take
    BY <2>5 DEF Take, Moved
  <2>6. CASE Convert
    BY <2>6 DEF Convert, PlaybackAssumption
  <2>. QED BY <1>2, <2>1, <2>2, <2>3, <2>4, <2>5, <2>6 DEF IpcStep, Fetch
<1>3. CASE IpcEvent
  BY <1>3 DEF IpcEvent, AskReport, AskAccount, AskDecrypt, Refuse, Exit,
       AskPlayback, RunReturns, DecryptReturns, IpcGoto, playVars,
       fetchVars, captureVars, PlaybackAssumption
<1>4. CASE BootKind \/ AppleKind \/ UNCHANGED vars
  BY <1>4 DEF BootKind, AppleKind, vars, playVars, fetchVars, captureVars
<1>. QED BY <1>1, <1>2, <1>3, <1>4, StepKinds DEF IpcKind
-----------------------------------------------------------------------------
(* Types.                                                                  *)

\* The variables of the capture and of the request, but for the counts.
LEMMA PlaybackTypeStep ==
  ASSUME PlaybackAssumption, TypeOK, IpcInv, RefsOwned, CaptureInv,
         [Next]_vars
  PROVE  PlaybackTypeOK'
<1>. USE DEF PlaybackTypeOK, TypeOK, PlaybackAssumption
<1>1. refs' \in [Calls -> Nat] /\ storing' \in [Calls -> Nat]
  BY RefsStep
<1>2. CASE PreKind
  <2>1. PICK c \in Calls : Preprocess(c) \/ Store(c)
    BY <1>2 DEF PreKind, Preprocessor
  <2>2. CASE Preprocess(c)
    BY <1>1, <2>2 DEF Preprocess, fetchVars
  <2>3. CASE Store(c)
    BY <1>1, <2>3 DEF Store, fetchVars
  <2>. QED BY <2>1, <2>2, <2>3
<1>3. CASE Fetch
  BY <1>1, <1>3 DEF Fetch, Reset, Cleared, Take, Moved, Convert, IpcInv,
                    fetchVars
<1>4. CASE Reply
  BY <1>1, <1>4 DEF Reply, Forget
<1>5. CASE ReportStep \/ Settled \/ CopyContext
  BY <1>1, <1>5 DEF ReportStep, ReadOk, ReadInitialized, ReadReady,
       ReadError, ReadDirs, Read, Settled, CopyContext, playVars, fetchVars,
       captureVars
<1>6. CASE IpcEvent
  BY <1>1, <1>6 DEF IpcEvent, AskReport, AskAccount, AskDecrypt, Refuse,
       Exit, AskPlayback, RunReturns, DecryptReturns, playVars, fetchVars,
       captureVars
<1>7. CASE BootKind \/ AppleKind \/ UNCHANGED vars
  BY <1>7 DEF BootKind, AppleKind, vars, playVars, fetchVars, captureVars
<1>. QED BY <1>2, <1>3, <1>4, <1>5, <1>6, <1>7, StepKinds
         DEF IpcKind, IpcStep

\* The init thread's stages and what it writes.
LEMMA BootTypeStep ==
  ASSUME TypeOK, BootKind
  PROVE  /\ boot' \in BootStages /\ lib' \in LoaderStates
         /\ rt' \in RuntimeStates
         /\ storage' \subseteq Messages /\ held' \subseteq Messages
<1>. USE DEF BootKind, BootStep, BootGoto
<1>1. CASE Open /\ UNCHANGED <<storage, held>>
  <2>1. boot' \in BootStages
    BY <1>1 DEF BootStages, Opening, Initializing, Open, DlopenFails, Dlopen,
         SymbolMissing, ResolveCore, ResolveFps, OpenSucceeds
  <2>2. rt' = rt
    BY <1>1 DEF Open, DlopenFails, Dlopen, SymbolMissing, ResolveCore,
         ResolveFps, OpenSucceeds
  <2>3. CASE ResolveFps
    <3>1. PICK found \in SUBSET FpsSymbols :
            lib' = [lib EXCEPT !.available = Complete(found),
                               !.fps = IF Complete(found) THEN found ELSE {}]
      BY <2>3 DEF ResolveFps
    <3>2. Complete(found) \in BOOLEAN
      BY DEF Complete
    <3>. QED BY <1>1, <2>1, <2>2, <3>1, <3>2 DEF TypeOK, LoaderStates
  <2>4. CASE ~ResolveFps
    <3>1. lib' \in LoaderStates
      BY <1>1, <2>4 DEF TypeOK, LoaderStates, Open, DlopenFails, Dlopen,
           SymbolMissing, ResolveCore, OpenSucceeds
    <3>. QED BY <1>1, <2>1, <2>2, <3>1 DEF TypeOK
  <2>. QED BY <2>3, <2>4
<1>2. CASE Initialize /\ UNCHANGED <<storage, held>>
  <2>. USE DEF Initialize, InitializeFails, InitDnsAndFoothill,
         InitRequestContext, InitPresentationInterface, Configure,
         Configured, LeaseReturns, FoothillInstance, Publish
  <2>1. boot' \in BootStages
    BY <1>2 DEF BootStages, Initializing
  <2>2. lib' = lib
    BY <1>2
  <2>3. rt' \in RuntimeStates
    BY <1>2 DEF TypeOK, RuntimeStates
  <2>. QED BY <1>2, <2>1, <2>2, <2>3 DEF TypeOK
<1>3. CASE Unlock /\ UNCHANGED <<storage, held>>
  BY <1>3 DEF Unlock, BootStages, Harvesting, TypeOK
<1>4. CASE Harvest /\ UNCHANGED <<lib, rt>>
  <2>. USE DEF Harvest, HarvestFails, LoginOver, HaveStorefront, HaveGuid,
               Send, Received, OutOfScope
  <2>1. boot' \in BootStages
    BY <1>4 DEF BootStages, Harvesting
  <2>2. storage' \subseteq Messages /\ held' \subseteq Messages
    BY <1>4 DEF TypeOK, Messages
  <2>. QED BY <1>4, <2>1, <2>2 DEF TypeOK
<1>. QED BY <1>1, <1>2, <1>3, <1>4

\* The IPC thread's places and its report.
LEMMA IpcTypeStep ==
  ASSUME TypeOK, IpcKind
  PROVE  ipc' \in IpcPlaces /\ report' \in Reports
<1>. USE DEF IpcGoto, IpcPlaces
<1>1. CASE ReportStep
  <2>. USE DEF ReportStep, ReadOk, ReadInitialized, ReadReady, ReadError,
               ReadDirs, Read
  <2>1. ipc' \in IpcPlaces
    BY <1>1
  <2>2. report' \in Reports
    BY <1>1 DEF TypeOK, Reports, LoaderStates, RuntimeStates
  <2>. QED BY <2>1, <2>2
<1>2. CASE Settled \/ CopyContext
  BY <1>2 DEF Settled, CopyContext, daemonVars, TypeOK
<1>3. CASE Reply
  BY <1>3 DEF Reply, Forget, BlankReport, Reports
<1>4. CASE Fetch /\ UNCHANGED daemonVars
  BY <1>4 DEF Fetch, Reset, Take, Convert, daemonVars, TypeOK
<1>5. CASE IpcEvent
  BY <1>5 DEF IpcEvent, AskReport, AskAccount, AskDecrypt, Refuse, Exit,
       AskPlayback, RunReturns, DecryptReturns, daemonVars, TypeOK
<1>. QED BY <1>1, <1>2, <1>3, <1>4, <1>5 DEF IpcKind, IpcStep

LEMMA TypeStep ==
  ASSUME PlaybackAssumption, TypeOK, IpcInv, RefsOwned, CaptureInv,
         [Next]_vars
  PROVE  TypeOK'
<1>1. PlaybackTypeOK'
  BY PlaybackTypeStep
<1>2. CASE BootKind
  BY <1>1, <1>2, BootTypeStep DEF BootKind, TypeOK
<1>3. CASE AppleKind
  <2>1. dialog' \in {"none", "init", "apple"} /\ held' \subseteq Messages
    BY <1>3 DEF AppleKind, DialogShown, DialogHandled, AppleDrops, TypeOK
  <2>. QED BY <1>1, <1>3, <2>1 DEF AppleKind, TypeOK
<1>4. CASE PreKind \/ UNCHANGED vars
  BY <1>1, <1>4 DEF PreKind, vars, daemonVars, TypeOK
<1>5. CASE IpcKind
  BY <1>1, <1>5, IpcTypeStep DEF IpcKind, TypeOK
<1>. QED BY <1>2, <1>3, <1>4, <1>5, StepKinds
-----------------------------------------------------------------------------
(* The invariant, and what follows from it.                                *)

LEMMA InitInv ==
  ASSUME PlaybackAssumption, Init
  PROVE  IInv
<1>. USE DEF Init, PlaybackInit, PlaybackAssumption
<1>1. TypeOK
  BY DEF TypeOK, PlaybackTypeOK, BlankReport, Opening, IpcPlaces, BootStages,
         LoaderStates, RuntimeStates, Reports
<1>2. BootInv
  BY DEF BootInv, Past, Harvesting, Initializing
<1>3. IpcInv /\ ReportInv
  BY DEF IpcInv, ReportInv, BlankReport
<1>4. RefsOwned
  <2>1. ASSUME NEW c \in Calls
        PROVE  refs[c] = Count(cf_dict = c) + Count(dict = c) + storing[c]
    <3>1. None # c
      BY DEF PlaybackAssumption
    <3>2. Count(cf_dict = c) = 0 /\ Count(dict = c) = 0
      BY <3>1 DEF Count
    <3>3. refs[c] = 0 /\ storing[c] = 0
      OBVIOUS
    <3>. QED BY <3>2, <3>3
  <2>. QED BY ONLY <2>1 DEF RefsOwned
<1>5. CaptureInv /\ MessagesOutlive
  BY DEF CaptureInv, OwnDict, MessagesOutlive
<1>. QED BY <1>1, <1>2, <1>3, <1>4, <1>5 DEF IInv

LEMMA NextInv ==
  ASSUME PlaybackAssumption, IInv, [Next]_vars
  PROVE  IInv'
<1>1. PlaybackTypeOK
  BY DEF IInv, TypeOK
<1>. QED BY <1>1, TypeStep, BootInvStep, IpcInvStep, ReportInvStep, RefsStep,
            CaptureStep, MessagesStep DEF IInv

\* All of the invariant holds throughout, for any number of requests.
THEOREM Invariant == Spec => []IInv
<1>1. Init => IInv
  BY InitInv, PlaybackAssumption
<1>2. IInv /\ [Next]_vars => IInv'
  BY NextInv, PlaybackAssumption
<1>. QED BY <1>1, <1>2, PTL DEF Spec

\* Every variable keeps its type; in particular no reference count of a
\* dictionary drops below zero (playback.cpp:245-318).
THEOREM TypeCorrect == Spec => []TypeOK
<1>1. IInv => TypeOK
  BY DEF IInv
<1>. QED BY <1>1, Invariant, PTL

\* Every CFRetain has exactly one owner, however often and however late
\* Apple runs the preprocessors (playback.cpp:245-318).
THEOREM RefsAreOwned == Spec => []RefsOwned
<1>1. IInv => RefsOwned
  BY DEF IInv
<1>. QED BY <1>1, Invariant, PTL

\* A late preprocessor of an earlier request never supplies an answer
\* (playback.cpp:246-255).
THEOREM AnswersOwnDict == Spec => []OwnDict
<1>1. IInv => OwnDict
  BY DEF IInv, CaptureInv
<1>. QED BY <1>1, Invariant, PTL

\* No memory of a message is gone while Apple refers to it (tokens.cpp:101).
THEOREM MessagesAreValid == Spec => []MessagesOutlive
<1>1. IInv => MessagesOutlive
  BY DEF IInv
<1>. QED BY <1>1, Invariant, PTL

\* A report of an initialised runtime is final (ipc.cpp:194-211).
THEOREM ReportsAreFinal == Spec => []ReportFinal
<1>1. IInv => ReportFinal
  BY DEF IInv, ReportInv, ReportFinal, BootInv, Past, Harvesting
<1>. QED BY <1>1, Invariant, PTL

\* Only resolved symbols and existing objects are used, by the init thread
\* and by handlers in progress (loader.cpp:383, ipc.cpp:501).
THEOREM CallsAreResolved == Spec => []CallsResolved
<1>1. IInv => CallsResolved
  BY DEF IInv, BootInv, IpcInv, CallsResolved, Past, Initializing,
         Harvesting, FpsSymbols
<1>. QED BY <1>1, Invariant, PTL

\* The store to initialized_ publishes the loader and the runtime whole
\* (runtime.cpp:299-316).
THEOREM PublishedAtOnce == Spec => PublishedWhole
<1>1. IInv /\ [Next]_vars => [rt.initialized => UNCHANGED <<lib, rt>>]_vars
  BY Frozen DEF IInv
<1>. QED BY <1>1, Invariant, PTL DEF Spec, PublishedWhole
-----------------------------------------------------------------------------
(* The promise of RequestService.                                          *)

\* What the refinement needs to know of a request that is being served, and of
\* a dialog in the init thread.
ServeInv ==
  /\ ipc \notin {"context", "reset", "run", "take", "convert", "reply"} =>
       call = None
  /\ ipc \in {"run", "take", "convert", "reply"} /\ call # None =>
       call \in made
  /\ ipc \notin {"run", "take", "convert", "reply"} => stray = {}
  /\ stray \subseteq made
  /\ \A c \in Calls : storing[c] > 0 => c \in made
  /\ report.ready => rt.ready
  /\ dialog = "init" => boot = "lease"

LEMMA ServeInvStep ==
  ASSUME PlaybackAssumption, IInv, ServeInv, [Next]_vars
  PROVE  ServeInv'
<1>. USE DEF ServeInv
<1>1. CASE BootKind
  <2>1. UNCHANGED <<ipc, call, made, stray, storing, report, dialog>>
    BY <1>1 DEF BootKind
  <2>2. rt.ready => rt'.ready
    BY <1>1 DEF BootKind, BootStep, Open, DlopenFails, Dlopen, SymbolMissing,
       ResolveCore, ResolveFps, OpenSucceeds, Initialize, InitializeFails,
       InitDnsAndFoothill, InitRequestContext, InitPresentationInterface,
       Configure, Configured, LeaseReturns, FoothillInstance, Publish,
       Unlock, BootGoto, IInv, TypeOK, RuntimeStates, BootInv, Past, Harvesting
  <2>3. dialog = "init" => boot' = "lease"
    BY <1>1 DEF BootKind, BootStep, Open, DlopenFails, Dlopen, SymbolMissing,
       ResolveCore, ResolveFps, OpenSucceeds, Initialize, InitializeFails,
       InitDnsAndFoothill, InitRequestContext, InitPresentationInterface,
       Configure, LeaseReturns, FoothillInstance, Publish, Unlock, BootGoto,
       Harvest, HarvestFails, LoginOver, HaveStorefront, HaveGuid, Send,
       Received
  <2>. QED BY <2>1, <2>2, <2>3
<1>2. CASE AppleKind
  BY <1>2 DEF AppleKind, DialogShown, DialogHandled, AppleDrops
<1>3. CASE PreKind
  <2>1. UNCHANGED <<ipc, call, made, boot, rt, report, dialog>>
    BY <1>3 DEF PreKind
  <2>2. PICK c \in Calls : Preprocess(c) \/ Store(c)
    BY <1>3 DEF PreKind, Preprocessor
  <2>3. CASE Preprocess(c)
    BY <2>1, <2>3 DEF Preprocess, IInv, TypeOK, PlaybackTypeOK
  <2>4. CASE Store(c)
    <3>1. c \in made
      BY <2>4 DEF Store
    <3>2. \A d \in Calls : storing'[d] > 0 => storing[d] > 0
      BY <2>4 DEF Store, IInv, TypeOK, PlaybackTypeOK
    <3>3. stray' \in {stray, stray \cup ({c} \ {call})}
          /\ (stray' # stray => ipc \in {"run", "take"})
      BY <2>4 DEF Store
    <3>. QED BY <2>1, <3>1, <3>2, <3>3
  <2>. QED BY <2>2, <2>3, <2>4
<1>4. CASE IpcKind
  <2>1. UNCHANGED <<boot, rt, dialog>>
    BY <1>4 DEF IpcKind
  <2>2. CASE ReportStep
    BY <2>1, <2>2 DEF ReportStep, ReadOk, ReadInitialized, ReadReady, ReadError,
       ReadDirs, Read, IpcGoto, playVars, fetchVars, captureVars, IInv, TypeOK,
       Reports
  <2>3. CASE Reply
    BY <2>1, <2>3 DEF Reply, Forget, BlankReport
  <2>4. CASE Settled \/ CopyContext
    BY <2>1, <2>4 DEF Settled, CopyContext, IpcGoto, playVars, fetchVars,
       captureVars, daemonVars, IInv, BootInv, IpcInv, Past, Initializing,
       Harvesting
  <2>5. CASE Reset /\ UNCHANGED daemonVars
    BY <2>1, <2>5 DEF Reset, fetchVars, daemonVars
  <2>6. CASE (Take \/ Convert) /\ UNCHANGED daemonVars
    BY <2>1, <2>6 DEF Take, Convert, daemonVars
  <2>7. CASE IpcEvent
    BY <2>1, <2>7 DEF IpcEvent, AskReport, AskAccount, AskDecrypt, Refuse, Exit,
       AskPlayback, RunReturns, DecryptReturns, IpcGoto, playVars, fetchVars,
       captureVars, daemonVars
  <2>. QED BY <1>4, <2>2, <2>3, <2>4, <2>5, <2>6, <2>7
           DEF IpcKind, IpcStep, Fetch
<1>5. CASE UNCHANGED vars
  BY <1>5 DEF vars, playVars, fetchVars, captureVars, daemonVars
<1>. QED BY <1>1, <1>2, <1>3, <1>4, <1>5, StepKinds

LEMMA Serves == Spec => [](IInv /\ ServeInv)
<1>1. Init => ServeInv
  BY DEF Init, PlaybackInit, ServeInv, BlankReport
<1>2. IInv /\ ServeInv /\ [Next]_vars => ServeInv'
  BY ServeInvStep, PlaybackAssumption
<1>. QED BY <1>1, <1>2, Invariant, PTL DEF Spec

\* What an accessor of the runtime has to wait for is the end of initialize()
\* alone, and a dialog in the init thread for nothing (main.cpp:235,
\* runtime.cpp:459).
THEOREM LockIsBrief == Spec => []LockHeldBriefly
<1>1. IInv /\ ServeInv => LockHeldBriefly
  BY DEF IInv, BootInv, ServeInv, LockHeldBriefly, MayRead, MuFree, Past,
         Initializing, Harvesting
<1>. QED BY <1>1, Serves, PTL
-----------------------------------------------------------------------------
(* Each step is one of RequestService, or cannot be told from outside.     *)

\* What a client sees of the runtime, of the request, and of its answer.
UpSeen == rt.initialized /\ rt.ready
Asked == made \cup ({call} \ {None})

RuntimeKept == RuntimeSeen' = RuntimeSeen /\ (UpSeen' <=> UpSeen)
RequestKept == UNCHANGED <<call, stray>> /\ Asked' = Asked
AnswerKept  == Said' = Said /\ body' = body
SeenKept == RuntimeKept /\ Serving' = Serving /\ RequestKept /\ AnswerKept

\* The init thread brings the runtime up, gives up, or is not seen.
LEMMA BootSeen ==
  ASSUME PlaybackAssumption, IInv, BootKind
  PROVE  \/ RuntimeSeen = "starting" /\ RuntimeSeen' = "up"
         \/ RuntimeSeen = "starting" /\ RuntimeSeen' = "failed" /\ ~UpSeen'
         \/ RuntimeKept
<1>. USE DEF BootKind, BootStep, BootGoto, RuntimeSeen, RuntimeKept, UpSeen,
             IInv, TypeOK, RuntimeStates
<1>1. CASE Publish
  BY <1>1 DEF Publish, BootInv, Past, Harvesting
<1>2. CASE DlopenFails \/ SymbolMissing \/ InitializeFails
  BY <1>2 DEF DlopenFails, SymbolMissing, InitializeFails, BootInv, Past,
     Harvesting
<1>3. CASE Dlopen \/ ResolveCore \/ ResolveFps \/ OpenSucceeds \/ Unlock
  BY <1>3 DEF Dlopen, ResolveCore, ResolveFps, OpenSucceeds, Unlock
<1>4. CASE InitDnsAndFoothill \/ InitRequestContext
           \/ InitPresentationInterface \/ Configure \/ LeaseReturns
           \/ FoothillInstance
  BY <1>4 DEF InitDnsAndFoothill, InitRequestContext,
     InitPresentationInterface, Configure, Configured, LeaseReturns,
     FoothillInstance, BootInv, Past, Harvesting
<1>5. CASE Harvest /\ UNCHANGED <<lib, rt>>
  <2>1. boot \notin {"failed", "off"} /\ boot' \notin {"failed", "off"}
    BY <1>5 DEF Harvest, HarvestFails, LoginOver, HaveStorefront, HaveGuid,
       Send, Received
  <2>. QED BY <1>5, <2>1
<1>. QED BY <1>1, <1>2, <1>3, <1>4, <1>5 DEF Open, Initialize

\* A preprocessor that stores while another request is served comes late.
LEMMA PreSeen ==
  ASSUME PlaybackAssumption, IInv, ServeInv, PreKind
  PROVE  /\ RuntimeKept /\ Serving' = Serving /\ AnswerKept
         /\ call' = call /\ Asked' = Asked
         /\ \/ stray' = stray
            \/ /\ Serving = "playback"
               /\ \E c \in Asked \ {call} : stray' = stray \cup {c}
<1>1. UNCHANGED <<ipc, call, made, body, boot, rt, report>>
  BY DEF PreKind
<1>2. RuntimeKept /\ Serving' = Serving /\ AnswerKept /\ Asked' = Asked
  BY <1>1 DEF RuntimeKept, RuntimeSeen, UpSeen, Serving, AnswerKept, Said,
     Asked
<1>3. PICK c \in Calls : Preprocess(c) \/ Store(c)
  BY DEF PreKind, Preprocessor
<1>4. CASE Preprocess(c)
  BY <1>1, <1>2, <1>4 DEF Preprocess
<1>5. CASE Store(c)
  <2>1. c \in made
    BY <1>5 DEF Store, ServeInv
  <2>2. CASE ipc \in {"run", "take"} /\ c # call
    BY <1>1, <1>2, <1>5, <2>1, <2>2 DEF Store, Serving, Asked
  <2>3. CASE ~(ipc \in {"run", "take"} /\ c # call)
    BY <1>1, <1>2, <1>5, <2>3 DEF Store
  <2>. QED BY <2>2, <2>3
<1>. QED BY <1>3, <1>4, <1>5

\* A request arrives, and is served or answered at once.
LEMMA EventSeen ==
  ASSUME PlaybackAssumption, IInv, ServeInv, IpcKind, IpcEvent
  PROVE  Service!Next \/ SeenKept
<1>. USE DEF IpcGoto, playVars, fetchVars, captureVars, daemonVars
<1>1. UNCHANGED <<boot, lib, rt>>
  BY DEF IpcKind
<1>2. RuntimeKept
  BY <1>1 DEF RuntimeKept, RuntimeSeen, UpSeen
<1>. DEFINE Quiet == UNCHANGED <<call, made, stray, body, report>>
<1>3. ASSUME Quiet PROVE RequestKept
  BY <1>3 DEF RequestKept, Asked
<1>4. ASSUME Quiet, ipc \notin {"dirs", "reply"}
      PROVE  AnswerKept
  <2>1. Said = {}
    BY <1>4 DEF Said
  <2>2. Said' = {}
    BY <1>4 DEF Said, IInv, ReportInv, BlankReport, IpcKind, IpcEvent,
       AskReport, AskAccount, AskDecrypt, Refuse, Exit, AskPlayback,
       RunReturns, DecryptReturns
  <2>. QED BY <1>4, <2>1, <2>2 DEF AnswerKept
<1>5. CASE AskReport \/ AskDecrypt \/ (AskAccount /\ ipc' = "settle")
  <2>1. Quiet /\ ipc = "idle" /\ ipc' \in {"ok", "settle", "decrypt"}
        /\ (ipc' = "settle" => rt.initialized)
        /\ (ipc' = "decrypt" => rt.initialized /\ rt.ready)
    BY <1>5 DEF AskReport, AskDecrypt, AskAccount, DecryptServed
  <2>2. RequestKept /\ AnswerKept
    BY <1>3, <1>4, <2>1
  <2>3. Serving = "nothing" /\ Serving' \in {"report", "account", "decrypt"}
        /\ (Serving' = "account" => RuntimeSeen = "up")
        /\ (Serving' = "decrypt" => UpSeen)
    BY <2>1 DEF Serving, RuntimeSeen, UpSeen
  <2>4. Service!Accept
    BY <1>2, <2>2, <2>3 DEF Service!Accept, Service!Serve, Service!answer,
       Service!request, RuntimeKept, RequestKept, AnswerKept, Asked, UpSeen
  <2>. QED BY <2>4 DEF Service!Next
<1>6. CASE Refuse \/ (AskAccount /\ ipc' = "reply") \/ DecryptReturns
  <2>1. Quiet /\ ipc \in {"idle", "decrypt"} /\ ipc' = "reply"
    BY <1>6 DEF Refuse, AskAccount, DecryptReturns
  <2>2. RequestKept /\ AnswerKept
    BY <1>3, <1>4, <2>1
  <2>3. Serving \in {"nothing", "decrypt"} /\ Serving' = "answering"
    BY <2>1 DEF Serving
  <2>4. Service!AnswerPlainly
    BY <1>2, <2>2, <2>3 DEF Service!AnswerPlainly, Service!Answer,
       Service!answer, Service!request, RuntimeKept, RequestKept, AnswerKept,
       Asked, UpSeen
  <2>. QED BY <2>4 DEF Service!Next
<1>7. CASE Exit
  <2>1. Quiet /\ ipc = "idle" /\ ipc' = "exited"
    BY <1>7 DEF Exit
  <2>2. RequestKept /\ AnswerKept
    BY <1>3, <1>4, <2>1
  <2>3. Serving = "nothing" /\ Serving' = "ended"
    BY <2>1 DEF Serving
  <2>4. Service!End
    BY <1>2, <2>2, <2>3 DEF Service!End, Service!Serve, Service!answer,
       Service!request, RuntimeKept, RequestKept, AnswerKept, Asked, UpSeen
  <2>. QED BY <2>4 DEF Service!Next
<1>8. CASE RunReturns
  <2>1. Quiet /\ ipc = "run" /\ ipc' = "take"
    BY <1>8 DEF RunReturns, IpcKind, IpcEvent, AskReport, AskAccount,
       AskDecrypt, Refuse, Exit, AskPlayback, DecryptReturns
  <2>. QED BY <1>2, <1>3, <1>4, <2>1 DEF SeenKept, Serving
<1>9. ASSUME NEW c \in Calls, AskPlayback(c) PROVE Service!Next
  <2>1. ipc = "idle" /\ ipc' = "context" /\ rt.initialized /\ c \notin made
        /\ call' = c /\ UNCHANGED <<made, stray, body, report>>
    BY <1>9 DEF AskPlayback
  <2>2. call = None /\ c # None
    BY <2>1 DEF ServeInv, PlaybackAssumption
  <2>3. c \notin Asked /\ Asked' = Asked \cup {c}
    BY <2>1, <2>2 DEF Asked
  <2>4. Serving = "nothing" /\ Serving' = "playback" /\ RuntimeSeen = "up"
        /\ AnswerKept
    BY <2>1 DEF Serving, RuntimeSeen, AnswerKept, Said
  <2>5. Service!AcceptPlayback
    BY <1>2, <2>1, <2>3, <2>4 DEF Service!AcceptPlayback, Service!Serve,
       Service!answer, RuntimeKept, AnswerKept, Asked, UpSeen
  <2>. QED BY <2>5 DEF Service!Next
<1>10. AskAccount => ipc' \in {"settle", "reply"}
  BY DEF AskAccount
<1>. QED BY <1>5, <1>6, <1>7, <1>8, <1>9, <1>10 DEF IpcEvent

\* The worker at work on a request, up to its answer.
LEMMA WorkSeen ==
  ASSUME PlaybackAssumption, IInv, ServeInv, IpcKind, IpcStep
  PROVE  Service!Next \/ SeenKept
<1>. USE DEF IpcGoto, playVars, fetchVars, captureVars, daemonVars
<1>1. UNCHANGED <<boot, lib, rt>>
  BY DEF IpcKind
<1>2. RuntimeKept
  BY <1>1 DEF RuntimeKept, RuntimeSeen, UpSeen
<1>3. CASE ReadOk \/ ReadInitialized \/ ReadReady \/ ReadError
  <2>1. /\ ipc \in {"ok", "initialized", "ready", "error"}
        /\ ipc' \in {"initialized", "ready", "error", "dirs"}
        /\ UNCHANGED <<call, made, stray, body>>
    BY <1>3 DEF ReadOk, ReadInitialized, ReadReady, ReadError, Read
  <2>. QED BY <1>2, <2>1 DEF SeenKept, Serving, RequestKept, Asked, AnswerKept,
              Said
<1>4. CASE ReadDirs
  <2>1. ipc = "dirs" /\ ipc' = "reply" /\ UNCHANGED <<call, made, stray, body>>
        /\ report' = [report EXCEPT !.dirs = rt.initialized /\ rt.loader]
    BY <1>4 DEF ReadDirs, Read
  <2>2. Serving = "report" /\ Serving' = "answering" /\ RequestKept
    BY <2>1 DEF Serving, RequestKept, Asked
  <2>3. /\ report'.initialized = report.initialized
        /\ report'.ready = report.ready /\ report'.error = report.error
        /\ report'.dirs <=> rt.initialized /\ rt.loader
    BY <2>1 DEF IInv, TypeOK, Reports
  <2>4. Said' \subseteq {"up", "directories", "decrypts", "error"}
    BY <2>1 DEF Said
  <2>5. /\ "up" \in Said' <=> report.initialized
        /\ "directories" \in Said' <=> rt.initialized /\ rt.loader
        /\ "decrypts" \in Said' <=> report.ready
        /\ "error" \in Said' <=> report.error
    BY <2>1, <2>3 DEF Said
  <2>6. "up" \in Said' => /\ RuntimeSeen = "up" /\ "directories" \in Said'
                          /\ UpSeen <=> "decrypts" \in Said'
    BY <2>1, <2>5 DEF IInv, ReportInv, BootInv, RuntimeSeen, UpSeen, TypeOK,
                      Reports, RuntimeStates
  <2>7. "decrypts" \in Said' => UpSeen \/ RuntimeSeen = "starting"
    BY <2>5 DEF IInv, BootInv, ServeInv, RuntimeSeen, UpSeen, Past, Harvesting
  <2>8. "error" \in Said' => RuntimeSeen = "failed"
    BY <2>5 DEF IInv, ReportInv, BootInv, RuntimeSeen, Past, Harvesting
  <2>9. Service!Report
    BY <1>2, <2>1, <2>2, <2>4, <2>6, <2>7, <2>8
    DEF Service!Report, Service!Answer, Service!request, RuntimeKept,
        RequestKept, Asked, UpSeen
  <2>. QED BY <2>9 DEF Service!Next
<1>5. CASE Settled
  <2>1. /\ ipc = "settle" /\ ipc' = "reply"
        /\ UNCHANGED <<call, made, stray, body, report>>
    BY <1>5 DEF Settled
  <2>2. RequestKept /\ Serving = "account" /\ Serving' = "answering"
    BY <2>1 DEF RequestKept, Asked, Serving
  <2>3. AnswerKept
    BY <2>1 DEF AnswerKept, Said, IInv, ReportInv, BlankReport
  <2>4. Service!AnswerPlainly
    BY <1>2, <2>2, <2>3 DEF Service!AnswerPlainly, Service!Answer,
       Service!answer, Service!request, RuntimeKept, RequestKept, AnswerKept,
       Asked, UpSeen
  <2>. QED BY <2>4 DEF Service!Next
<1>6. CASE CopyContext
  <2>1. /\ ipc = "context" /\ ipc' = "reset"
        /\ UNCHANGED <<call, made, stray, body, report>>
    BY <1>6 DEF CopyContext, IInv, IpcInv, BootInv
  <2>. QED BY <1>2, <2>1 DEF SeenKept, RequestKept, Asked, Serving, AnswerKept,
              Said
<1>7. CASE Reset /\ UNCHANGED daemonVars
  <2>1. /\ ipc = "reset" /\ ipc' = "run" /\ made' = made \cup {call}
        /\ stray' = {} /\ UNCHANGED <<call, body, report>>
    BY <1>7 DEF Reset
  <2>2. stray = {} /\ call # None
    BY <2>1 DEF ServeInv, IInv, IpcInv, PlaybackAssumption
  <2>3. Asked' = Asked
    BY <2>1, <2>2 DEF Asked
  <2>. QED BY <1>2, <2>1, <2>2, <2>3 DEF SeenKept, RequestKept, Serving,
              AnswerKept, Said
<1>8. CASE Take /\ UNCHANGED daemonVars
  <2>1. /\ ipc = "take" /\ ipc' = "convert"
        /\ UNCHANGED <<call, made, stray, body, report>>
    BY <1>8 DEF Take
  <2>. QED BY <1>2, <2>1 DEF SeenKept, RequestKept, Asked, Serving, AnswerKept,
              Said
<1>9. CASE Convert /\ UNCHANGED daemonVars
  <2>1. /\ ipc = "convert" /\ ipc' = "reply"
        /\ body' \in {IF dict # None THEN dict ELSE "items", "error"}
        /\ UNCHANGED <<call, made, stray, report>>
    BY <1>9 DEF Convert
  <2>2. RequestKept /\ Serving = "playback" /\ Serving' = "answering"
    BY <2>1 DEF RequestKept, Asked, Serving
  <2>3. Said' = Said
    BY <2>1 DEF Said, IInv, ReportInv, BlankReport
  <2>4. body' \in {call, "items", "error"} \cup stray
    BY <2>1 DEF IInv, CaptureInv
  <2>5. Service!AnswerPlayback
    BY <1>2, <2>2, <2>3, <2>4 DEF Service!AnswerPlayback, Service!Answer,
       Service!request, RuntimeKept, RequestKept, Asked, UpSeen
  <2>. QED BY <2>5 DEF Service!Next
<1>10. CASE Reply
  <2>1. /\ ipc = "reply" /\ ipc' \in {"idle", "exited"} /\ made' = made
        /\ call' = None /\ body' = None /\ stray' = {}
        /\ report' = BlankReport
    BY <1>10 DEF Reply, Forget
  <2>2. Serving = "answering" /\ Serving' \in {"nothing", "ended"}
        /\ Said' = {}
    BY <2>1 DEF Serving, Said
  <2>3. Asked' = Asked
    BY <2>1 DEF Asked, ServeInv
  <2>4. Service!Deliver
    BY <1>2, <2>1, <2>2, <2>3 DEF Service!Deliver, RuntimeKept, Asked, UpSeen
  <2>. QED BY <2>4 DEF Service!Next
<1>. QED
  BY <1>3, <1>4, <1>5, <1>6, <1>7, <1>8, <1>9, <1>10
  DEF IpcStep, ReportStep, Fetch

\* A step of a thread is one of the promise or not seen at all.
LEMMA StepSeen ==
  ASSUME PlaybackAssumption, IInv, ServeInv, [Next]_vars
  PROVE  [Service!Next]_(Service!vars)
<1>1. SeenKept => UNCHANGED Service!vars
  BY DEF SeenKept, RuntimeKept, RequestKept, AnswerKept, Asked, UpSeen,
         Service!vars, Service!request, Service!answer
<1>2. CASE BootKind
  <2>1. UNCHANGED <<ipc, call, made, stray, body, report>>
    BY <1>2 DEF BootKind
  <2>2. Serving' = Serving /\ RequestKept /\ AnswerKept
    BY <2>1 DEF Serving, RequestKept, Asked, AnswerKept, Said
  <2>3. CASE RuntimeKept
    BY <1>1, <2>2, <2>3 DEF SeenKept
  <2>4. CASE RuntimeSeen = "starting" /\ RuntimeSeen' = "up"
    <3>1. UpSeen' \in BOOLEAN
      BY DEF UpSeen
    <3>2. Service!ComeUp
      BY <2>2, <2>4, <3>1 DEF Service!ComeUp, Service!request,
         Service!answer, RequestKept, AnswerKept, Asked, UpSeen
    <3>. QED BY <3>2 DEF Service!Next
  <2>5. CASE RuntimeSeen = "starting" /\ RuntimeSeen' = "failed" /\ ~UpSeen'
    <3>1. ~rt.initialized
      BY <2>5 DEF RuntimeSeen
    <3>2. Service!Fail
      BY <2>2, <2>5, <3>1 DEF Service!Fail, Service!request, Service!answer,
         RequestKept, AnswerKept, Asked, UpSeen
    <3>. QED BY <3>2 DEF Service!Next
  <2>. QED BY <1>2, <2>3, <2>4, <2>5, BootSeen
<1>3. CASE AppleKind \/ UNCHANGED vars
  <2>1. UNCHANGED <<ipc, call, made, stray, body, report, boot, rt>>
    BY <1>3 DEF AppleKind, vars, playVars, captureVars, fetchVars, daemonVars
  <2>. QED BY <1>1, <2>1 DEF SeenKept, RuntimeKept, RuntimeSeen, UpSeen,
              Serving, RequestKept, Asked, AnswerKept, Said
<1>4. CASE PreKind
  <2>1. CASE stray' = stray
    BY <1>1, <1>4, <2>1, PreSeen DEF SeenKept, RequestKept
  <2>2. CASE stray' # stray
    <3>1. Service!ComeLate
      BY <1>4, <2>2, PreSeen DEF Service!ComeLate, Service!answer,
         RuntimeKept, AnswerKept, Asked, UpSeen
    <3>. QED BY <3>1 DEF Service!Next
  <2>. QED BY <2>1, <2>2
<1>5. CASE IpcKind
  BY <1>1, <1>5, WorkSeen, EventSeen DEF IpcKind
<1>. QED BY <1>2, <1>3, <1>4, <1>5, StepKinds

\* The worker keeps the promise of RequestService, for any number of requests
\* and of preprocessor calls (ipc.cpp:194-211, :381-535,
\* playback.cpp:246-318).
THEOREM DaemonImplementsService == Spec => ServiceImplemented
<1>1. Init => Service!Init
  BY DEF Init, PlaybackInit, Service!Init, RuntimeSeen, Serving, Said
<1>2. IInv /\ ServeInv /\ [Next]_vars => [Service!Next]_(Service!vars)
  BY StepSeen, PlaybackAssumption
<1>. QED BY <1>1, <1>2, Serves, PTL
         DEF Spec, ServiceImplemented, Service!Spec
=============================================================================
