----------------------------- MODULE ConfigStore -----------------------------
(***************************************************************************)
(* tas/store.py, class TASConfigStore, with its two kinds of users: the    *)
(* dashboard's request handlers (dashboard/app.py), which may run at the   *)
(* same time, and the switch, whose listener hands a port's configurations *)
(* to its engines (nodes/switch.py, _on_config_update).  The file outlives *)
(* the process; the operator may edit it while the switch is down.         *)
(*                                                                         *)
(* Configurations are opaque but for whether validate() accepts them.      *)
(***************************************************************************)
EXTENDS Naturals, FiniteSets

CONSTANTS
  Ports,                  \* port_ids
  Handlers,               \* threads that serve dashboard requests
  TASConfigs, CBSConfigs, \* configurations a request or the file can name
  ValidTAS, ValidCBS,     \* those validate() accepts
  DefaultTAS, DefaultCBS, \* TASConfig(), CBSConfig()
  Malformed,              \* an entry of the file from_dict cannot parse
  NoFile, Truncated,      \* states of the file without a readable content
  NotObject,              \* a readable content: it, or a port's part, is not an object
  Free,                   \* the lock is free
  Edits,                  \* bound: files the operator may put in its place
  MaxRequests,            \* bound: updates requested
  MaxCrashes,             \* bound: crashes of the switch
  MayFail                 \* TRUE: writing the file may fail

VARIABLES
  up,         \* the switch is running
  store,      \* _tas and _cbs; while down, what they held last
  engines,    \* config of the TAS and CBS engine of each port
  lock,       \* the holder of the store's _lock, or Free
  file,       \* the file at self.path
  edited,     \* the file was edited since the switch went down
  handler,    \* program counter and locals of the request handlers
  requests, crashes,
  raced,      \* ports whose last update overlapped another of the same port
  saved,      \* what the store held when it was last loaded or written completely
  unsaved     \* an update has been stored since

vars == <<up, store, engines, lock, file, edited, handler, requests, crashes,
          raced, saved, unsaved>>

Pair == [tas : TASConfigs, cbs : CBSConfigs]
Contents == [Ports -> [tas : TASConfigs \union {Malformed},
                       cbs : CBSConfigs \union {Malformed}]]
Idle == [pc |-> "idle"]

ASSUME StoreAssumption ==
  /\ ValidTAS \subseteq TASConfigs /\ DefaultTAS \in ValidTAS
  /\ ValidCBS \subseteq CBSConfigs /\ DefaultCBS \in ValidCBS
  /\ Malformed \notin TASConfigs \union CBSConfigs
  /\ NoFile \notin Contents /\ Truncated \notin Contents
  /\ NotObject \notin Contents \union {NoFile, Truncated}
  /\ Edits \subseteq Contents \union {Truncated, NotObject}
  /\ Free \notin Handlers
  /\ MaxRequests \in Nat /\ MaxCrashes \in Nat /\ MayFail \in BOOLEAN

\* Mutant of Load: a TAS configuration is not validated either.
LoadUnchecked(f) ==
  [p \in Ports |->
    IF f \in {NoFile, Truncated} THEN [tas |-> DefaultTAS, cbs |-> DefaultCBS]
    ELSE [tas |-> IF f[p].tas = Malformed THEN DefaultTAS ELSE f[p].tas,
          cbs |-> IF f[p].cbs = Malformed THEN DefaultCBS ELSE f[p].cbs]]

\* _load of a file of objects, if it can be read: an unreadable file counts as empty;
\* a TAS configuration is validated, a CBS configuration only parsed.
Load(f) ==
  [p \in Ports |->
    IF f \in {NoFile, Truncated} THEN [tas |-> DefaultTAS, cbs |-> DefaultCBS]
    ELSE [tas |-> IF f[p].tas \in ValidTAS THEN f[p].tas ELSE DefaultTAS,
          cbs |-> IF f[p].cbs = Malformed THEN DefaultCBS ELSE f[p].cbs]]

\* A request for port p is being served.
Serves(p) == \E h \in Handlers : handler[h].pc # "idle" /\ handler[h].port = p

Goto(h, record) == handler' = [handler EXCEPT ![h] = record]

Init ==
  /\ up = FALSE
  /\ store = Load(NoFile)
  /\ engines = Load(NoFile)
  /\ lock = Free
  /\ file = NoFile
  /\ edited = FALSE
  /\ handler = [h \in Handlers |-> Idle]
  /\ requests = 0 /\ crashes = 0
  /\ raced = {}
  /\ saved = Load(NoFile) /\ unsaved = FALSE

-----------------------------------------------------------------------------
\* The switch starts: load the file, build the engines from it, and only then
\* start the dashboard.  If the file, or its part for a port, is not an object, its
\* get raises out of the constructor, and the switch does not start until the file
\* is edited.
Start ==
  /\ ~up /\ file # NotObject
  /\ up' = TRUE
  /\ store' = Load(file) /\ saved' = Load(file)
  /\ engines' = Load(file)
  /\ edited' = FALSE /\ unsaved' = FALSE
  /\ raced' = {}
  /\ UNCHANGED <<lock, file, handler, requests, crashes>>

Crash ==
  /\ up /\ crashes < MaxCrashes
  /\ up' = FALSE
  /\ crashes' = crashes + 1
  /\ lock' = Free
  /\ handler' = [h \in Handlers |-> Idle]
  /\ UNCHANGED <<store, engines, file, edited, requests, raced, saved, unsaved>>

\* The operator replaces the file (once, as the last edit before a start counts).
Edit(f) ==
  /\ ~up /\ (~edited \/ file = NotObject)
  /\ file' = f
  /\ edited' = TRUE
  /\ UNCHANGED <<up, store, engines, lock, handler, requests, crashes, raced, saved, unsaved>>

-----------------------------------------------------------------------------
(***************************************************************************)
(* update_tas, update_cbs and the resets: an invalid configuration is      *)
(* answered with an error; a valid one is stored and saved under the lock, *)
(* then the listener is notified without it.  Saving opens the file, which *)
(* truncates it, and writes all ports; an error on the way is logged and   *)
(* swallowed.  A crash may fall between any two of these steps.            *)
(***************************************************************************)
\* Mutant of Store: without the lock.
StoreUnlocked(h, p, new) ==
  /\ up /\ handler[h].pc = "idle"
  /\ requests < MaxRequests
  /\ requests' = requests + 1
  /\ lock' = h
  /\ store' = [store EXCEPT ![p] = new] /\ unsaved' = TRUE
  /\ Goto(h, [pc |-> "open", port |-> p])
  /\ raced' = IF Serves(p) THEN raced \union {p} ELSE raced \ {p}
  /\ UNCHANGED <<up, engines, file, edited, crashes, saved>>

\* Take the lock and store.
Store(h, p, new) ==
  /\ up /\ handler[h].pc = "idle" /\ lock = Free
  /\ requests < MaxRequests
  /\ requests' = requests + 1
  /\ lock' = h
  /\ store' = [store EXCEPT ![p] = new] /\ unsaved' = TRUE
  /\ Goto(h, [pc |-> "open", port |-> p])
  /\ raced' = IF Serves(p) THEN raced \union {p} ELSE raced \ {p}
  /\ UNCHANGED <<up, engines, file, edited, crashes, saved>>

Opened(h) ==
  /\ file' = Truncated
  /\ Goto(h, [pc |-> "save", port |-> handler[h].port])
  /\ UNCHANGED lock

\* The file as it was stays behind.
NotOpened(h) ==
  /\ MayFail
  /\ lock' = Free
  /\ Goto(h, [pc |-> "notify", port |-> handler[h].port])
  /\ UNCHANGED file

Open(h) ==
  /\ handler[h].pc = "open"
  /\ Opened(h) \/ NotOpened(h)
  /\ UNCHANGED <<up, store, engines, edited, requests, crashes, raced, saved, unsaved>>

\* All ports are written, and the handler goes on with `next`.
Written(h, next) ==
  /\ file' = store /\ saved' = store
  /\ unsaved' = FALSE
  /\ Goto(h, next)

\* The write breaks off.
BrokenOff(h, next) ==
  /\ MayFail /\ Goto(h, next)
  /\ UNCHANGED <<file, saved, unsaved>>

\* Mutants of Save: the CBS section is not written; an error ends the request.
SaveTASOnly(h) ==
  /\ handler[h].pc = "save"
  /\ lock' = Free
  /\ file' = [p \in Ports |-> [tas |-> store[p].tas, cbs |-> DefaultCBS]]
  /\ saved' = store /\ unsaved' = FALSE
  /\ Goto(h, [pc |-> "notify", port |-> handler[h].port])
  /\ UNCHANGED <<up, store, engines, edited, requests, crashes, raced>>

SaveGivesUp(h) ==
  /\ handler[h].pc = "save"
  /\ lock' = Free
  /\ Written(h, [pc |-> "notify", port |-> handler[h].port]) \/ BrokenOff(h, Idle)
  /\ UNCHANGED <<up, store, engines, edited, requests, crashes, raced>>

\* Write all ports and release the lock.
Save(h) ==
  /\ handler[h].pc = "save"
  /\ lock' = Free
  /\ LET next == [pc |-> "notify", port |-> handler[h].port]
     IN  Written(h, next) \/ BrokenOff(h, next)
  /\ UNCHANGED <<up, store, engines, edited, requests, crashes, raced>>

\* _notify reads the two configurations of the port, without the lock.
ReadTAS(h) ==
  /\ handler[h].pc = "notify"
  /\ Goto(h, [pc |-> "tas", port |-> handler[h].port, tas |-> store[handler[h].port].tas])
  /\ UNCHANGED <<up, store, engines, lock, file, edited, requests, crashes, raced, saved, unsaved>>

ReadCBS(h) ==
  /\ handler[h].pc = "tas"
  /\ Goto(h, [pc |-> "apply", port |-> handler[h].port, tas |-> handler[h].tas,
              cbs |-> store[handler[h].port].cbs])
  /\ UNCHANGED <<up, store, engines, lock, file, edited, requests, crashes, raced, saved, unsaved>>

\* _on_config_update calls the engines' update_config one after the other.  Both
\* validate and raise; _notify logs the exception and skips what is left.  Either
\* way the request is answered with ok.
ApplyTAS(h) ==
  /\ handler[h].pc = "apply"
  /\ LET ok == handler[h].tas \in ValidTAS
     IN  /\ engines' = IF ok THEN [engines EXCEPT ![handler[h].port].tas = handler[h].tas]
                       ELSE engines
         /\ Goto(h, IF ok THEN [pc |-> "applied", port |-> handler[h].port,
                                cbs |-> handler[h].cbs]
                    ELSE Idle)
  /\ UNCHANGED <<up, store, lock, file, edited, requests, crashes, raced, saved, unsaved>>

ApplyCBS(h) ==
  /\ handler[h].pc = "applied"
  /\ LET ok == handler[h].cbs \in ValidCBS
     IN  engines' = IF ok THEN [engines EXCEPT ![handler[h].port].cbs = handler[h].cbs]
                    ELSE engines
  /\ Goto(h, Idle)
  /\ UNCHANGED <<up, store, lock, file, edited, requests, crashes, raced, saved, unsaved>>

-----------------------------------------------------------------------------
Update(h) ==
  \/ \E p \in Ports :
       \/ \E c \in TASConfigs : c \in ValidTAS /\ Store(h, p, [tas |-> c, cbs |-> store[p].cbs])
       \/ \E c \in CBSConfigs : c \in ValidCBS /\ Store(h, p, [tas |-> store[p].tas, cbs |-> c])
  \/ Open(h) \/ Save(h) \/ ReadTAS(h) \/ ReadCBS(h) \/ ApplyTAS(h) \/ ApplyCBS(h)

Next ==
  \/ Start \/ Crash
  \/ \E f \in Edits : Edit(f)
  \/ \E h \in Handlers : Update(h)

Spec == Init /\ [][Next]_vars

-----------------------------------------------------------------------------
\* What a handler knows at each point of a request.
HandlerStates ==
  {Idle}
    \union [pc : {"open", "save", "notify"}, port : Ports]
    \union [pc : {"tas"}, port : Ports, tas : TASConfigs]
    \union [pc : {"apply"}, port : Ports, tas : TASConfigs, cbs : CBSConfigs]
    \union [pc : {"applied"}, port : Ports, cbs : CBSConfigs]

Locking(h) == handler[h].pc \in {"open", "save"}

\* Every variable has its type, and the lock is held exactly during a save.
TypeOK ==
  /\ up \in BOOLEAN /\ edited \in BOOLEAN /\ unsaved \in BOOLEAN
  /\ store \in [Ports -> Pair] /\ engines \in [Ports -> Pair] /\ saved \in [Ports -> Pair]
  /\ lock \in Handlers \union {Free}
  /\ file \in Contents \union {NoFile, Truncated, NotObject}
  /\ handler \in [Handlers -> HandlerStates]
  /\ \A h \in Handlers : Locking(h) <=> lock = h
  /\ requests \in 0 .. MaxRequests /\ crashes \in 0 .. MaxCrashes
  /\ raced \subseteq Ports

\* What a port runs is what the store holds for it, once no request is being
\* served.  _notify works on values read after the lock is released, so that of
\* two requests at once the slower can leave its older configuration in the
\* engine for good: the property does not hold of the code.
Quiet == up /\ \A h \in Handlers : handler[h].pc = "idle"
EnginesFollowStore == Quiet => engines = store

\* It does hold of every port whose last update did not overlap another of the
\* same port, whatever failed, crashed or was requested for other ports, and
\* whatever earlier requests had left behind: the next update alone heals it.
EnginesFollowSerial ==
  Quiet => \A p \in Ports \ raced : engines[p] = store[p]

\* The switch comes back with what the store last held if all of it had been
\* written.  If not (the last saves failed, or the crash hit one before its end),
\* it comes back with what was last written completely, or, once the file had been
\* opened, which truncates it, with the defaults: never with anything older and
\* never with a mixture, whatever else was going on.
RestartKeeps ==
  [][~up /\ up' /\ ~edited
       => store' \in (IF unsaved THEN {saved, Load(NoFile)} ELSE {store})]_vars

\* No engine ever runs a TAS configuration that validate() rejects, whether it
\* came from the dashboard or from an edited file.
TASValid == \A p \in Ports : engines[p].tas \in ValidTAS

=============================================================================
