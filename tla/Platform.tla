-------------------------------- MODULE Platform --------------------------------
(***************************************************************************)
(* Users and billing of Accounts, the LiveResults, and the activity log of *)
(* Ledger.  They share no row, so a behaviour works on one of them         *)
(* throughout (focus): the seats, the events of the payment provider, the  *)
(* live results, or the log.                                               *)
(***************************************************************************)
EXTENDS Accounts

(* The constants of LiveResults and of Ledger, which say what they are.    *)
CONSTANTS
    Boot, Tick, Requests, Sockets, SiemTypes, MaxUploads, MaxSources, MaxFaults,
    Tenants, MaxEntries, MaxLosses

(* A request is none of the two scheduled jobs.                            *)
ASSUME PlatformAssumption ==
    /\ Requests \cap {Boot, Tick} = {}
    /\ {MaxUploads, MaxSources, MaxFaults, MaxEntries, MaxLosses} \subseteq Nat

VARIABLES
    source, uploads, shown, byRun, job, socket, stamped, switched, faults,
    sqlite, log, writing, started, next, failed, deleted,
    focus

Live == INSTANCE LiveResults
Log == INSTANCE Ledger

liveVars == <<source, uploads, shown, byRun, job, socket, stamped, switched, faults>>
logVars == <<sqlite, log, writing, started, next, failed, deleted>>
platformVars == <<vars, liveVars, logVars, focus>>

PlatformInit ==
    /\ Init /\ Live!LiveInit /\ Log!LedgerInit
    /\ focus \in {"users", "events", "live", "log"}
    /\ focus # "log" => sqlite

On(part, step) == focus = part /\ step /\ UNCHANGED <<focus, liveVars, logVars>>
OnLive(step) == focus = "live" /\ step /\ UNCHANGED <<focus, vars, logVars>>
OnLog(step) == focus = "log" /\ step /\ UNCHANGED <<focus, vars, liveVars>>

PlatformNext ==
    \/ \E h \in Handlers :
          \/ \E p \in People : On("users", BeginUser(h, p))
          \/ \E e \in Events : On("events", ReceiveEvent(h, e))
          \/ On("events", Fail(h))
          \/ \E part \in {"users", "events"} : On(part, BeginCheckout(h) \/ Finish(h))
    \/ OnLive(Live!LiveNext)
    \/ OnLog(Log!LedgerNext)

(* A request that does not die finishes; the provider repeats an event     *)
(* until it is answered; the scheduler wakes up and its runs go on.        *)
PlatformFairness ==
    /\ \A h \in Handlers : WF_platformVars(On("events", Finish(h)))
    /\ \A e \in Events :
          SF_platformVars(On("events", \E h \in Handlers : ReceiveEvent(h, e)))
    /\ WF_platformVars(OnLive(Live!WakeUp))
    /\ \A j \in {Boot, Tick} \cup Requests : WF_platformVars(OnLive(Live!RunStep(j)))
    /\ \A r \in Requests : WF_platformVars(OnLive(Live!UploadStep(r)))

PlatformSpec == PlatformInit /\ [][PlatformNext]_platformVars /\ PlatformFairness

-----------------------------------------------------------------------------
(* Properties                                                              *)

(* The types of all parts.                                                 *)
PlatformTypeOK == TypeOK /\ Live!LiveTypeOK /\ Log!LedgerTypeOK

(* Sockets show what the last scheduled run published, unless something    *)
(* that sends nothing has published since.                                 *)
FeedCurrent == Live!FeedCurrent

(* Removing an entry between two of an organisation's shows, and a gap     *)
(* that nobody made has been another organisation's.                       *)
TamperingShows == Log!GapsExplained /\ Log!RemovalShows

(* What people are shown is true, of the results and of the log.           *)
ShownTrue == FeedCurrent /\ TamperingShows

(* What is sent is dealt with: every event the provider keeps sending is   *)
(* processed in the end, and what the database says is shown in the end    *)
(* and reaches every socket.                                               *)
Settles ==
    /\ focus = "events" => EventProcessed
    /\ Live!FeedConverges
=============================================================================
