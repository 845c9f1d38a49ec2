-------------------------- MODULE ConfigStoreProofs --------------------------
(***************************************************************************)
(* Proofs about the configuration store, for any ports, handlers,          *)
(* configurations and bounds.                                              *)
(***************************************************************************)
EXTENDS ConfigStore, TLAPS

(***************************************************************************)
(* Load returns configurations, valid ones for TAS, and gives back what    *)
(* was saved.                                                              *)
(***************************************************************************)
LEMMA LoadType ==
  ASSUME NEW f \in Contents \union {NoFile, Truncated}
  PROVE  /\ Load(f) \in [Ports -> Pair]
         /\ \A p \in Ports : Load(f)[p].tas \in ValidTAS
  BY StoreAssumption DEF Load, Contents, Pair

LEMMA LoadSaved ==
  ASSUME NEW s \in [Ports -> Pair], \A p \in Ports : s[p].tas \in ValidTAS
  PROVE  s \in Contents /\ Load(s) = s
<1>1. s \in Contents
  BY DEF Contents, Pair
<1>2. s # NoFile /\ s # Truncated
  BY <1>1, StoreAssumption
<1>3. ASSUME NEW p \in Ports PROVE Load(s)[p] = s[p]
  <2>1. s[p] = [tas |-> s[p].tas, cbs |-> s[p].cbs] /\ s[p].cbs # Malformed
    BY StoreAssumption DEF Pair
  <2> QED
    BY <1>2, <2>1 DEF Load
<1> QED
  BY <1>1, <1>3 DEF Load

(***************************************************************************)
(* What a handler holds, by its program counter.                           *)
(***************************************************************************)
LEMMA HandlerFacts ==
  ASSUME TypeOK, NEW h \in Handlers
  PROVE  /\ handler[h].pc = "idle" => handler[h] = Idle
         /\ handler[h].pc \in {"open", "save", "notify"}
              => handler[h] \in [pc : {"open", "save", "notify"}, port : Ports]
         /\ handler[h].pc = "tas"
              => handler[h] \in [pc : {"tas"}, port : Ports, tas : TASConfigs]
         /\ handler[h].pc = "apply"
              => handler[h] \in [pc : {"apply"}, port : Ports, tas : TASConfigs,
                                 cbs : CBSConfigs]
         /\ handler[h].pc = "applied"
              => handler[h] \in [pc : {"applied"}, port : Ports, cbs : CBSConfigs]
  BY DEF TypeOK, HandlerStates, Idle

(***************************************************************************)
(* Type correctness, which includes that the lock is held exactly during a *)
(* save.                                                                   *)
(***************************************************************************)
LEMMA TypeInit == Init => TypeOK
<1> SUFFICES ASSUME Init PROVE TypeOK
  OBVIOUS
<1>1. Load(NoFile) \in [Ports -> Pair]
  BY LoadType
<1>2. \A h \in Handlers : Locking(h) <=> lock = h
  BY StoreAssumption DEF Init, Idle, Locking
<1>3. handler \in [Handlers -> HandlerStates]
  BY DEF Init, HandlerStates
<1>4. requests \in 0 .. MaxRequests /\ crashes \in 0 .. MaxCrashes
  BY StoreAssumption DEF Init
<1> QED
  BY <1>1, <1>2, <1>3, <1>4 DEF Init, TypeOK

\* A handler goes on outside the save.
LEMMA TypeGoto ==
  ASSUME TypeOK, NEW h \in Handlers, NEW r \in HandlerStates,
         r.pc \notin {"open", "save"}, ~Locking(h), Goto(h, r), UNCHANGED lock
  PROVE  /\ handler' \in [Handlers -> HandlerStates]
         /\ \A g \in Handlers : Locking(g)' <=> lock' = g
<1>1. handler' \in [Handlers -> HandlerStates]
  BY DEF TypeOK, Goto
<1>2. ASSUME NEW g \in Handlers PROVE Locking(g)' <=> lock' = g
  BY DEF TypeOK, Goto, Locking
<1> QED
  BY <1>1, <1>2

LEMMA TypeUpdate ==
  ASSUME TypeOK, NEW h \in Handlers, Update(h)
  PROVE  TypeOK'
<1> USE HandlerFacts
<1>1. ASSUME NEW p \in Ports, NEW new \in Pair, Store(h, p, new) PROVE TypeOK'
  <2> DEFINE r == [pc |-> "open", port |-> p]
  <2>1. r \in HandlerStates /\ r.pc = "open"
    BY DEF HandlerStates
  <2>2. handler' \in [Handlers -> HandlerStates]
    BY <1>1, <2>1 DEF TypeOK, Store, Goto
  <2>3. ASSUME NEW g \in Handlers PROVE Locking(g)' <=> lock' = g
    BY <1>1, <2>1, StoreAssumption DEF TypeOK, Store, Goto, Locking
  <2>4. store' \in [Ports -> Pair] /\ raced' \subseteq Ports /\ requests' \in 0 .. MaxRequests
    BY <1>1, StoreAssumption DEF TypeOK, Store
  <2> QED
    BY <1>1, <2>2, <2>3, <2>4 DEF TypeOK, Store
<1>2. ASSUME NEW p \in Ports, NEW c \in TASConfigs, Store(h, p, [tas |-> c, cbs |-> store[p].cbs])
      PROVE TypeOK'
  <2>1. [tas |-> c, cbs |-> store[p].cbs] \in Pair
    BY DEF TypeOK, Pair
  <2> QED
    BY <1>1, <1>2, <2>1
<1>3. ASSUME NEW p \in Ports, NEW c \in CBSConfigs, Store(h, p, [tas |-> store[p].tas, cbs |-> c])
      PROVE TypeOK'
  <2>1. [tas |-> store[p].tas, cbs |-> c] \in Pair
    BY DEF TypeOK, Pair
  <2> QED
    BY <1>1, <1>3, <2>1
<1>9. ASSUME NEW r \in HandlerStates, r.pc = "notify", Goto(h, r), Locking(h), lock' = Free
      PROVE /\ handler' \in [Handlers -> HandlerStates]
            /\ \A g \in Handlers : Locking(g)' <=> lock' = g
  BY <1>9, StoreAssumption DEF TypeOK, Goto, Locking
<1>10. CASE Open(h)
  <2>1. handler[h].port \in Ports /\ Locking(h)
    BY <1>10 DEF Open, Locking
  <2>2. CASE Opened(h)
    <3> DEFINE r == [pc |-> "save", port |-> handler[h].port]
    <3>1. r \in HandlerStates /\ r.pc = "save"
      BY <2>1 DEF HandlerStates
    <3>2. handler' \in [Handlers -> HandlerStates]
      BY <2>2, <3>1 DEF TypeOK, Opened, Goto
    <3>3. ASSUME NEW g \in Handlers PROVE Locking(g)' <=> lock' = g
      BY <2>1, <2>2, <3>1 DEF TypeOK, Opened, Goto, Locking
    <3> QED
      BY <1>10, <2>2, <3>2, <3>3 DEF TypeOK, Open, Opened
  <2>3. CASE NotOpened(h)
    <3> DEFINE r == [pc |-> "notify", port |-> handler[h].port]
    <3>1. r \in HandlerStates /\ r.pc = "notify"
      BY <2>1 DEF HandlerStates
    <3>2. Goto(h, r) /\ lock' = Free
      BY <2>3 DEF NotOpened
    <3>3. /\ handler' \in [Handlers -> HandlerStates]
          /\ \A g \in Handlers : Locking(g)' <=> lock' = g
      BY <1>9, <2>1, <3>1, <3>2
    <3> QED
      BY <1>10, <2>3, <3>3 DEF TypeOK, Open, NotOpened
  <2> QED
    BY <1>10, <2>2, <2>3 DEF Open
<1>4. CASE Save(h)
  <2> DEFINE r == [pc |-> "notify", port |-> handler[h].port]
  <2>1. Locking(h) /\ lock' = Free
    BY <1>4 DEF Save, Locking
  <2>2. r \in HandlerStates /\ r.pc = "notify"
    BY <1>4 DEF Save, HandlerStates
  <2>3. Goto(h, r)
    BY <1>4 DEF Save, Written, BrokenOff
  <2>4. /\ handler' \in [Handlers -> HandlerStates]
        /\ \A g \in Handlers : Locking(g)' <=> lock' = g
    BY <1>9, <2>1, <2>2, <2>3
  <2>5. /\ file' \in Contents \union {NoFile, Truncated, NotObject}
        /\ saved' \in [Ports -> Pair] /\ unsaved' \in BOOLEAN
    BY <1>4 DEF TypeOK, Save, Written, BrokenOff, Contents, Pair
  <2> QED
    BY <1>4, <2>1, <2>4, <2>5 DEF TypeOK, Save
<1>5. CASE ReadTAS(h)
  <2> DEFINE r == [pc |-> "tas", port |-> handler[h].port, tas |-> store[handler[h].port].tas]
  <2>1. r \in HandlerStates /\ r.pc = "tas"
    BY <1>5 DEF ReadTAS, TypeOK, HandlerStates, Pair
  <2> QED
    BY <1>5, <2>1, TypeGoto DEF TypeOK, ReadTAS, Locking
<1>6. CASE ReadCBS(h)
  <2> DEFINE r == [pc |-> "apply", port |-> handler[h].port, tas |-> handler[h].tas,
                   cbs |-> store[handler[h].port].cbs]
  <2>1. r \in HandlerStates /\ r.pc = "apply"
    BY <1>6 DEF ReadCBS, TypeOK, HandlerStates, Pair
  <2> QED
    BY <1>6, <2>1, TypeGoto DEF TypeOK, ReadCBS, Locking
<1>7. CASE ApplyTAS(h)
  <2> DEFINE r == IF handler[h].tas \in ValidTAS
                    THEN [pc |-> "applied", port |-> handler[h].port, cbs |-> handler[h].cbs]
                    ELSE Idle
  <2>1. r \in HandlerStates /\ r.pc \notin {"open", "save"}
    BY <1>7 DEF ApplyTAS, HandlerStates, Idle
  <2>2. engines' \in [Ports -> Pair]
    BY <1>7, StoreAssumption DEF ApplyTAS, TypeOK, Pair
  <2> QED
    BY <1>7, <2>1, <2>2, TypeGoto DEF TypeOK, ApplyTAS, Locking
<1>8. CASE ApplyCBS(h)
  <2>1. Idle \in HandlerStates /\ Idle.pc \notin {"open", "save"}
    BY DEF HandlerStates, Idle
  <2>2. engines' \in [Ports -> Pair]
    BY <1>8, StoreAssumption DEF ApplyCBS, TypeOK, Pair
  <2> QED
    BY <1>8, <2>1, <2>2, TypeGoto DEF TypeOK, ApplyCBS, Locking
<1> QED
  BY <1>2, <1>3, <1>4, <1>5, <1>6, <1>7, <1>8, <1>10 DEF Update

LEMMA TypeNext == TypeOK /\ [Next]_vars => TypeOK'
<1> SUFFICES ASSUME TypeOK, [Next]_vars PROVE TypeOK'
  OBVIOUS
<1>1. CASE Start
  <2>1. Load(file) \in [Ports -> Pair]
    BY <1>1, LoadType DEF TypeOK, Start
  <2> QED
    BY <1>1, <2>1 DEF TypeOK, Start, Locking
<1>2. CASE Crash
  <2>1. Idle \in HandlerStates /\ Idle.pc = "idle"
    BY DEF HandlerStates, Idle
  <2>2. handler' \in [Handlers -> HandlerStates]
    BY <1>2, <2>1 DEF Crash
  <2>3. \A h \in Handlers : Locking(h)' <=> lock' = h
    BY <1>2, <2>1, StoreAssumption DEF Crash, Locking
  <2>4. crashes' \in 0 .. MaxCrashes /\ lock' = Free /\ up' = FALSE
    BY <1>2, StoreAssumption DEF TypeOK, Crash
  <2>5. UNCHANGED <<store, engines, file, edited, requests, raced, saved, unsaved>>
    BY <1>2 DEF Crash
  <2> QED
    BY <2>2, <2>3, <2>4, <2>5 DEF TypeOK
<1>3. ASSUME NEW f \in Edits, Edit(f) PROVE TypeOK'
  BY <1>3, StoreAssumption DEF TypeOK, Edit, Locking
<1>4. ASSUME NEW h \in Handlers, Update(h) PROVE TypeOK'
  BY <1>4, TypeUpdate
<1>5. CASE UNCHANGED vars
  BY <1>5 DEF TypeOK, vars, Locking
<1> QED
  BY <1>1, <1>2, <1>3, <1>4, <1>5 DEF Next

\* TypeOK holds for any number of handlers: the lock is held by the handler that
\* is saving and by no other.
THEOREM TypeCorrect == Spec => []TypeOK
  BY TypeInit, TypeNext, PTL DEF Spec

-----------------------------------------------------------------------------
(***************************************************************************)
(* An update of one engine leaves the other engine of the port, and every  *)
(* other port, alone.                                                      *)
(***************************************************************************)
LEMMA SetTAS ==
  ASSUME NEW e \in [Ports -> Pair], NEW p \in Ports, NEW c
  PROVE  /\ [e EXCEPT ![p].tas = c][p].tas = c
         /\ [e EXCEPT ![p].tas = c][p].cbs = e[p].cbs
         /\ \A q \in Ports \ {p} : [e EXCEPT ![p].tas = c][q] = e[q]
<1>1. /\ [e EXCEPT ![p].tas = c][p] = [e[p] EXCEPT !.tas = c]
      /\ \A q \in Ports \ {p} : [e EXCEPT ![p].tas = c][q] = e[q]
  BY Zenon
<1>2. e[p] = [tas |-> e[p].tas, cbs |-> e[p].cbs]
  BY DEF Pair
<1>3. [e[p] EXCEPT !.tas = c].tas = c /\ [e[p] EXCEPT !.tas = c].cbs = e[p].cbs
  BY <1>2, Zenon
<1> QED
  BY <1>1, <1>3, Zenon

LEMMA SetCBS ==
  ASSUME NEW e \in [Ports -> Pair], NEW p \in Ports, NEW c
  PROVE  /\ [e EXCEPT ![p].cbs = c][p].cbs = c
         /\ [e EXCEPT ![p].cbs = c][p].tas = e[p].tas
         /\ \A q \in Ports \ {p} : [e EXCEPT ![p].cbs = c][q] = e[q]
<1>1. /\ [e EXCEPT ![p].cbs = c][p] = [e[p] EXCEPT !.cbs = c]
      /\ \A q \in Ports \ {p} : [e EXCEPT ![p].cbs = c][q] = e[q]
  BY Zenon
<1>2. e[p] = [tas |-> e[p].tas, cbs |-> e[p].cbs]
  BY DEF Pair
<1>3. [e[p] EXCEPT !.cbs = c].cbs = c /\ [e[p] EXCEPT !.cbs = c].tas = e[p].tas
  BY <1>2, Zenon
<1> QED
  BY <1>1, <1>3, Zenon

-----------------------------------------------------------------------------
(***************************************************************************)
(* Validity, with the store included.                                      *)
(***************************************************************************)
StoreValid == \A p \in Ports : store[p].tas \in ValidTAS /\ engines[p].tas \in ValidTAS

LEMMA ValidNext == TypeOK /\ StoreValid /\ [Next]_vars => StoreValid'
<1> SUFFICES ASSUME TypeOK, StoreValid, [Next]_vars PROVE StoreValid'
  OBVIOUS
<1> USE HandlerFacts
<1>1. CASE Start
  BY <1>1, LoadType DEF Start, TypeOK, StoreValid
<1>2. CASE Crash
  BY <1>2 DEF Crash, StoreValid
<1>3. ASSUME NEW f \in Edits, Edit(f) PROVE StoreValid'
  BY <1>3 DEF Edit, StoreValid
<1>4. ASSUME NEW h \in Handlers, NEW p \in Ports, NEW new, new.tas \in ValidTAS,
             Store(h, p, new)
      PROVE StoreValid'
  BY <1>4 DEF Store, TypeOK, StoreValid
<1>5. ASSUME NEW h \in Handlers, Open(h) \/ Save(h) \/ ReadTAS(h) \/ ReadCBS(h)
      PROVE StoreValid'
  BY <1>5 DEF Open, Save, ReadTAS, ReadCBS, StoreValid
<1>6. ASSUME NEW h \in Handlers, ApplyTAS(h) PROVE StoreValid'
  <2>1. handler[h].port \in Ports
    BY <1>6 DEF ApplyTAS
  <2>2. CASE handler[h].tas \in ValidTAS
    <3>1. engines' = [engines EXCEPT ![handler[h].port].tas = handler[h].tas]
      BY <1>6, <2>2 DEF ApplyTAS
    <3>2. \A p \in Ports : engines'[p].tas \in ValidTAS
      BY <2>1, <2>2, <3>1, SetTAS DEF TypeOK, StoreValid
    <3> QED
      BY <1>6, <3>2 DEF ApplyTAS, StoreValid
  <2>3. CASE handler[h].tas \notin ValidTAS
    BY <1>6, <2>3 DEF ApplyTAS, StoreValid
  <2> QED
    BY <2>2, <2>3
<1>7. ASSUME NEW h \in Handlers, ApplyCBS(h) PROVE StoreValid'
  <2>1. handler[h].port \in Ports
    BY <1>7 DEF ApplyCBS
  <2>2. CASE handler[h].cbs \in ValidCBS
    <3>1. engines' = [engines EXCEPT ![handler[h].port].cbs = handler[h].cbs]
      BY <1>7, <2>2 DEF ApplyCBS
    <3>2. \A p \in Ports : engines'[p].tas \in ValidTAS
      BY <2>1, <3>1, SetCBS DEF TypeOK, StoreValid
    <3> QED
      BY <1>7, <3>2 DEF ApplyCBS, StoreValid
  <2>3. CASE handler[h].cbs \notin ValidCBS
    BY <1>7, <2>3 DEF ApplyCBS, StoreValid
  <2> QED
    BY <2>2, <2>3
<1>8. CASE UNCHANGED vars
  BY <1>8 DEF vars, StoreValid
<1>9. ASSUME NEW h \in Handlers, NEW p \in Ports, NEW c \in TASConfigs, c \in ValidTAS,
             Store(h, p, [tas |-> c, cbs |-> store[p].cbs])
      PROVE StoreValid'
  BY <1>4, <1>9
<1>10. ASSUME NEW h \in Handlers, NEW p \in Ports, NEW c \in CBSConfigs,
              Store(h, p, [tas |-> store[p].tas, cbs |-> c])
      PROVE StoreValid'
  BY <1>4, <1>10 DEF StoreValid
<1> QED
  BY <1>1, <1>2, <1>3, <1>5, <1>6, <1>7, <1>8, <1>9, <1>10 DEF Next, Update

\* No engine ever runs an invalid TAS configuration, whatever the file holds.
THEOREM TASAlwaysValid == Spec => []TASValid
<1>1. Init => StoreValid
  BY LoadType DEF Init, StoreValid
<1>2. StoreValid => TASValid
  BY DEF StoreValid, TASValid
<1> QED
  BY <1>1, <1>2, ValidNext, TypeCorrect, PTL DEF Spec

-----------------------------------------------------------------------------
(***************************************************************************)
(* A restart.  What makes it safe is what the file can hold, unless it was *)
(* edited: what was written last, or nothing readable while an update has  *)
(* not been written; and that nothing else is in the store once it has.    *)
(***************************************************************************)
WriteInHand == \A h \in Handlers : Locking(h) => up /\ unsaved

FileCurrent ==
  ~edited => /\ file # NotObject
             /\ Load(file) \in (IF unsaved THEN {saved, Load(NoFile)} ELSE {saved})
             /\ ~unsaved => saved = store

LEMMA WriteNext == TypeOK /\ WriteInHand /\ [Next]_vars => WriteInHand'
<1> SUFFICES ASSUME TypeOK, WriteInHand, [Next]_vars, NEW g \in Handlers, Locking(g)'
             PROVE  up' /\ unsaved'
  BY DEF WriteInHand
<1>1. CASE Start
  BY <1>1 DEF Start, Locking, WriteInHand
<1>2. CASE Crash
  BY <1>2 DEF Crash, Locking, Idle
<1>3. ASSUME NEW f \in Edits, Edit(f) PROVE up' /\ unsaved'
  BY <1>3 DEF Edit, Locking, WriteInHand
<1>4. ASSUME NEW h \in Handlers, NEW p \in Ports, NEW new, Store(h, p, new)
      PROVE up' /\ unsaved'
  BY <1>4 DEF Store
<1>5. ASSUME NEW h \in Handlers, Open(h) PROVE up' /\ unsaved'
  BY <1>5 DEF Open, Locking, WriteInHand
<1>6. ASSUME NEW h \in Handlers, Save(h) PROVE up' /\ unsaved'
  <2>1. Locking(h) /\ up /\ unsaved
    BY <1>6 DEF Save, Locking, WriteInHand
  <2>2. \A f \in Handlers \ {h} : ~Locking(f) /\ handler'[f] = handler[f]
    <3>1. \A f \in Handlers \ {h} : ~Locking(f)
      BY <2>1 DEF TypeOK
    <3>2. \A f \in Handlers \ {h} : handler'[f] = handler[f]
      BY <1>6 DEF TypeOK, Save, Written, BrokenOff, Goto
    <3> QED
      BY <3>1, <3>2
  <2>3. handler'[h].pc = "notify"
    BY <1>6 DEF TypeOK, Save, Written, BrokenOff, Goto
  <2> QED
    BY <2>2, <2>3 DEF Locking
<1>7. ASSUME NEW h \in Handlers, ReadTAS(h) \/ ReadCBS(h) \/ ApplyTAS(h) \/ ApplyCBS(h)
      PROVE up' /\ unsaved'
  <2>1. handler'[h].pc \notin {"open", "save"} /\ UNCHANGED <<up, unsaved>>
    BY <1>7 DEF TypeOK, ReadTAS, ReadCBS, ApplyTAS, ApplyCBS, Goto, Idle
  <2>2. \A f \in Handlers \ {h} : handler'[f] = handler[f]
    BY <1>7 DEF TypeOK, ReadTAS, ReadCBS, ApplyTAS, ApplyCBS, Goto
  <2> QED
    BY <2>1, <2>2 DEF Locking, WriteInHand
<1>8. CASE UNCHANGED vars
  BY <1>8 DEF vars, Locking, WriteInHand
<1> QED
  BY <1>1, <1>2, <1>3, <1>4, <1>5, <1>6, <1>7, <1>8 DEF Next, Update

LEMMA FileNext ==
  TypeOK /\ StoreValid /\ WriteInHand /\ FileCurrent /\ [Next]_vars => FileCurrent'
<1> SUFFICES ASSUME TypeOK, StoreValid, WriteInHand, FileCurrent, [Next]_vars
             PROVE  FileCurrent'
  OBVIOUS
<1>1. CASE Start
  BY <1>1 DEF Start, FileCurrent
<1>2. CASE Crash
  BY <1>2 DEF Crash, FileCurrent
<1>3. ASSUME NEW f \in Edits, Edit(f) PROVE FileCurrent'
  BY <1>3 DEF Edit, FileCurrent
<1>4. ASSUME NEW h \in Handlers, NEW p \in Ports, NEW new, Store(h, p, new) PROVE FileCurrent'
  BY <1>4 DEF Store, FileCurrent
<1>5. ASSUME NEW h \in Handlers, Open(h) PROVE FileCurrent'
  <2>1. unsaved
    BY <1>5 DEF Open, Locking, WriteInHand
  <2>2. Load(Truncated) = Load(NoFile) /\ Truncated # NotObject
    BY StoreAssumption DEF Load
  <2> QED
    BY <1>5, <2>1, <2>2 DEF Open, Opened, NotOpened, FileCurrent
<1>6. ASSUME NEW h \in Handlers, Save(h) PROVE FileCurrent'
  <2>1. Load(store) = store /\ store # NotObject
    BY LoadSaved, StoreAssumption DEF TypeOK, StoreValid, Contents
  <2>2. CASE file' = store /\ saved' = store /\ unsaved' = FALSE
    BY <1>6, <2>1, <2>2 DEF Save, FileCurrent
  <2>3. CASE UNCHANGED <<file, saved, unsaved>>
    BY <1>6, <2>3 DEF Save, FileCurrent
  <2> QED
    BY <1>6, <2>2, <2>3 DEF Save, Written, BrokenOff
<1>7. ASSUME NEW h \in Handlers, ReadTAS(h) \/ ReadCBS(h) \/ ApplyTAS(h) \/ ApplyCBS(h)
      PROVE FileCurrent'
  BY <1>7 DEF ReadTAS, ReadCBS, ApplyTAS, ApplyCBS, FileCurrent
<1>8. CASE UNCHANGED vars
  BY <1>8 DEF vars, FileCurrent
<1> QED
  BY <1>1, <1>2, <1>3, <1>4, <1>5, <1>6, <1>7, <1>8 DEF Next, Update

\* A restart brings back what the store held if it was written, and otherwise what
\* was written last or the defaults, whatever the handlers, the file system and
\* earlier crashes did.
THEOREM RestartSafe == Spec => RestartKeeps
<1>1. Init => StoreValid /\ WriteInHand /\ FileCurrent
  BY LoadType, StoreAssumption DEF Init, StoreValid, WriteInHand, Locking, Idle, FileCurrent
<1>2. FileCurrent /\ [Next]_vars
        => [~up /\ up' /\ ~edited
              => store' \in (IF unsaved THEN {saved, Load(NoFile)} ELSE {store})]_vars
  BY DEF FileCurrent, Next, Start, Crash, Edit, Update, Store, Open, Save, ReadTAS, ReadCBS,
         ApplyTAS, ApplyCBS
<1> QED
  BY <1>1, <1>2, ValidNext, WriteNext, FileNext, TypeCorrect, PTL DEF Spec, RestartKeeps

-----------------------------------------------------------------------------
(***************************************************************************)
(* An update that runs alone on its port.  While it does, whatever it has  *)
(* read or applied is what the store holds; once it is over, so are the    *)
(* engines.  An invalid CBS configuration can only come from the file, and *)
(* no update has touched its port's CBS configuration since.               *)
(***************************************************************************)
Serving(h, p) == handler[h].pc # "idle" /\ handler[h].port = p

Progress(h, p) ==
  /\ handler[h].pc \in {"tas", "apply"} => handler[h].tas = store[p].tas
  /\ handler[h].pc \in {"apply", "applied"} => handler[h].cbs = store[p].cbs
  /\ handler[h].pc = "applied" => engines[p].tas = store[p].tas

DownIdle == ~up => \A h \in Handlers : handler[h] = Idle

InvalidCBS ==
  up => \A p \in Ports : store[p].cbs \notin ValidCBS =>
          /\ engines[p].cbs = store[p].cbs
          /\ \A h \in Handlers : Serving(h, p) /\ handler[h].pc \in {"apply", "applied"}
                                   => handler[h].cbs = store[p].cbs

Alone ==
  \A p \in Ports \ raced :
    /\ \A g, h \in Handlers : Serving(g, p) /\ Serving(h, p) => g = h
    /\ \A h \in Handlers : Serving(h, p) => Progress(h, p)
    /\ up /\ (\A h \in Handlers : ~Serving(h, p)) => engines[p] = store[p]

SerialInv == DownIdle /\ InvalidCBS /\ Alone

LEMMA SerialStore ==
  ASSUME TypeOK, SerialInv, NEW h \in Handlers, NEW p \in Ports, NEW new \in Pair,
         new.cbs \in ValidCBS \/ new.cbs = store[p].cbs, Store(h, p, new)
  PROVE  SerialInv'
<1>1. /\ up /\ up' /\ engines' = engines /\ ~Serving(h, p)
      /\ store'[p] = new /\ \A q \in Ports \ {p} : store'[q] = store[q] /\ ~Serving(h, q)
      /\ handler'[h] = [pc |-> "open", port |-> p]
      /\ \A g \in Handlers \ {h} : handler'[g] = handler[g]
  BY DEF TypeOK, Store, Goto, Serving
<1>2. \A q \in Ports : Serving(h, q)' <=> q = p
  BY <1>1 DEF Serving
<1>3. \A g \in Handlers \ {h}, q \in Ports : Serving(g, q)' <=> Serving(g, q)
  BY <1>1 DEF Serving
<1>4. InvalidCBS'
  <2> SUFFICES ASSUME NEW q \in Ports, store'[q].cbs \notin ValidCBS
               PROVE  /\ engines'[q].cbs = store'[q].cbs
                      /\ \A g \in Handlers :
                           Serving(g, q)' /\ handler'[g].pc \in {"apply", "applied"}
                             => handler'[g].cbs = store'[q].cbs
    BY DEF InvalidCBS
  <2>1. store'[q].cbs = store[q].cbs
    BY <1>1
  <2>2. handler'[h].pc \notin {"apply", "applied"}
    BY <1>1
  <2> QED
    BY <1>1, <1>3, <2>1, <2>2 DEF SerialInv, InvalidCBS
<1>5. Alone'
  <2> SUFFICES ASSUME NEW q \in Ports, q \notin raced'
               PROVE  /\ \A f, g \in Handlers : Serving(f, q)' /\ Serving(g, q)' => f = g
                      /\ \A g \in Handlers : Serving(g, q)' => Progress(g, q)'
                      /\ (\A g \in Handlers : ~Serving(g, q)') => engines'[q] = store'[q]
    BY DEF Alone
  <2>1. CASE q = p
    <3>1. \A g \in Handlers : ~Serving(g, p)
      BY <2>1 DEF Store, Serves, Serving
    <3>2. \A g \in Handlers : Serving(g, q)' <=> g = h
      BY <1>2, <1>3, <2>1, <3>1
    <3>3. Progress(h, q)'
      BY <1>1 DEF Progress
    <3> QED
      BY <3>2, <3>3
  <2>2. CASE q # p
    <3>1. q \notin raced /\ store'[q] = store[q]
      BY <1>1, <2>2 DEF Store
    <3>2. \A g \in Handlers : Serving(g, q)' <=> Serving(g, q)
      BY <1>1, <1>2, <1>3, <2>2
    <3>3. \A g \in Handlers : Serving(g, q) => Progress(g, q) /\ g # h
      BY <1>1, <2>2, <3>1 DEF SerialInv, Alone
    <3>4. \A g \in Handlers : Serving(g, q) => Progress(g, q)'
      BY <1>1, <3>1, <3>3 DEF Progress
    <3> QED
      BY <1>1, <3>1, <3>2, <3>4 DEF SerialInv, Alone
  <2> QED
    BY <2>1, <2>2
<1> QED
  BY <1>1, <1>4, <1>5 DEF SerialInv, DownIdle

\* Steps of a handler that change no engine and go on with the request.
LEMMA SerialRead ==
  ASSUME TypeOK, SerialInv, NEW h \in Handlers,
         Open(h) \/ Save(h) \/ ReadTAS(h) \/ ReadCBS(h)
  PROVE  SerialInv'
<1> USE HandlerFacts
<1>1. /\ UNCHANGED <<up, store, engines, raced>>
      /\ handler'[h].port = handler[h].port /\ handler[h].port \in Ports
      /\ handler[h].pc # "idle" /\ handler'[h].pc # "idle"
      /\ \A g \in Handlers \ {h} : handler'[g] = handler[g]
  BY DEF TypeOK, Open, Opened, NotOpened, Save, Written, BrokenOff, ReadTAS, ReadCBS, Goto
<1>2. \A g \in Handlers, q \in Ports : Serving(g, q)' <=> Serving(g, q)
  BY <1>1 DEF Serving
<1>3. /\ handler'[h].pc \in {"save", "notify", "tas", "apply"}
      /\ handler'[h].pc = "tas" => handler'[h].tas = store[handler[h].port].tas
      /\ handler'[h].pc = "apply" => /\ handler[h].pc = "tas"
                                     /\ handler'[h].tas = handler[h].tas
                                     /\ handler'[h].cbs = store[handler[h].port].cbs
  BY DEF TypeOK, Open, Opened, NotOpened, Save, Written, BrokenOff, ReadTAS, ReadCBS, Goto
<1>4. \A q \in Ports : Serving(h, q) /\ Progress(h, q) => Progress(h, q)'
  BY <1>1, <1>3 DEF Serving, Progress
<1>5. \A g \in Handlers \ {h}, q \in Ports : Progress(g, q) => Progress(g, q)'
  BY <1>1 DEF Progress
<1>6. Alone'
  BY <1>1, <1>2, <1>4, <1>5 DEF SerialInv, Alone
<1>7. InvalidCBS'
  <2> SUFFICES ASSUME up', NEW q \in Ports, store'[q].cbs \notin ValidCBS
               PROVE  /\ engines'[q].cbs = store'[q].cbs
                      /\ \A g \in Handlers :
                           Serving(g, q)' /\ handler'[g].pc \in {"apply", "applied"}
                             => handler'[g].cbs = store'[q].cbs
    BY DEF InvalidCBS
  <2>1. Serving(h, q)' /\ handler'[h].pc \in {"apply", "applied"}
          => handler'[h].cbs = store'[q].cbs
    BY <1>1, <1>3 DEF Serving
  <2> QED
    BY <1>1, <1>2, <2>1 DEF SerialInv, InvalidCBS
<1>8. DownIdle'
  <2>1. up
    BY <1>1 DEF SerialInv, DownIdle, Idle
  <2> QED
    BY <1>1, <2>1 DEF DownIdle
<1> QED
  BY <1>6, <1>7, <1>8 DEF SerialInv

LEMMA SerialApplyTAS ==
  ASSUME TypeOK, StoreValid, SerialInv, NEW h \in Handlers, ApplyTAS(h)
  PROVE  SerialInv'
<1> DEFINE p == handler[h].port
<1>1. /\ UNCHANGED <<up, store, raced>>
      /\ p \in Ports /\ handler[h].pc = "apply"
      /\ \A g \in Handlers \ {h} : handler'[g] = handler[g]
  BY HandlerFacts DEF TypeOK, ApplyTAS, Goto
<1>2. /\ \A q \in Ports : engines'[q].cbs = engines[q].cbs
      /\ \A q \in Ports \ {p} : engines'[q] = engines[q]
      /\ handler[h].tas \in ValidTAS => engines'[p].tas = handler[h].tas
  <2>1. CASE handler[h].tas \in ValidTAS
    <3>1. engines' = [engines EXCEPT ![p].tas = handler[h].tas]
      BY <2>1 DEF ApplyTAS
    <3> QED
      BY <1>1, <3>1, SetTAS DEF TypeOK
  <2>2. CASE handler[h].tas \notin ValidTAS
    BY <2>2 DEF ApplyTAS
  <2> QED
    BY <2>1, <2>2
<1>3. handler'[h] = IF handler[h].tas \in ValidTAS
                      THEN [pc |-> "applied", port |-> p, cbs |-> handler[h].cbs] ELSE Idle
  BY DEF TypeOK, ApplyTAS, Goto
<1>4. \A g \in Handlers \ {h}, q \in Ports : Serving(g, q)' <=> Serving(g, q)
  BY <1>1 DEF Serving
<1>5. \A q \in Ports : Serving(h, q)' => q = p /\ handler'[h].cbs = handler[h].cbs
                                         /\ handler[h].tas \in ValidTAS
  BY <1>3 DEF Serving, Idle
<1>6. Serving(h, p)
  BY <1>1 DEF Serving
<1>7. InvalidCBS'
  <2> SUFFICES ASSUME up', NEW q \in Ports, store'[q].cbs \notin ValidCBS
               PROVE  /\ engines'[q].cbs = store'[q].cbs
                      /\ \A g \in Handlers :
                           Serving(g, q)' /\ handler'[g].pc \in {"apply", "applied"}
                             => handler'[g].cbs = store'[q].cbs
    BY DEF InvalidCBS
  <2>1. Serving(h, q)' => handler'[h].cbs = store'[q].cbs
    BY <1>1, <1>5, <1>6 DEF SerialInv, InvalidCBS
  <2> QED
    BY <1>1, <1>2, <1>4, <2>1 DEF SerialInv, InvalidCBS
<1>8. Alone'
  <2> SUFFICES ASSUME NEW q \in Ports, q \notin raced
               PROVE  /\ \A f, g \in Handlers : Serving(f, q)' /\ Serving(g, q)' => f = g
                      /\ \A g \in Handlers : Serving(g, q)' => Progress(g, q)'
                      /\ up' /\ (\A g \in Handlers : ~Serving(g, q)') => engines'[q] = store'[q]
    BY <1>1 DEF Alone
  <2>1. CASE q = p
    <3>1. Progress(h, p)
      BY <1>6, <2>1 DEF SerialInv, Alone
    <3>2. handler[h].tas = store[p].tas /\ handler[h].cbs = store[p].cbs
      BY <1>1, <3>1 DEF Progress
    <3>3. handler[h].tas \in ValidTAS
      BY <1>1, <3>2 DEF StoreValid
    <3>4. handler'[h] = [pc |-> "applied", port |-> p, cbs |-> handler[h].cbs]
      BY <1>3, <3>3
    <3>5. Serving(h, q)' /\ Progress(h, q)'
      BY <1>1, <1>2, <2>1, <3>2, <3>3, <3>4 DEF Serving, Progress
    <3>6. \A g \in Handlers \ {h} : ~Serving(g, q)'
      BY <1>4, <1>6, <2>1 DEF SerialInv, Alone
    <3> QED
      BY <3>5, <3>6
  <2>2. CASE q # p
    <3>1. ~Serving(h, q) /\ ~Serving(h, q)'
      BY <1>5, <2>2 DEF Serving
    <3>2. \A g \in Handlers : Serving(g, q) => Progress(g, q)'
      <4> SUFFICES ASSUME NEW g \in Handlers, Serving(g, q) PROVE Progress(g, q)'
        OBVIOUS
      <4>1. Progress(g, q) /\ g # h
        BY <3>1 DEF SerialInv, Alone
      <4> QED
        BY <1>1, <1>2, <2>2, <4>1 DEF Progress
    <3> QED
      BY <1>1, <1>2, <1>4, <2>2, <3>1, <3>2 DEF SerialInv, Alone
  <2> QED
    BY <2>1, <2>2
<1>9. DownIdle'
  BY <1>1 DEF SerialInv, DownIdle, Idle
<1> QED
  BY <1>7, <1>8, <1>9 DEF SerialInv

LEMMA SerialApplyCBS ==
  ASSUME TypeOK, TypeOK', SerialInv, NEW h \in Handlers, ApplyCBS(h)
  PROVE  SerialInv'
<1> DEFINE p == handler[h].port
<1>1. /\ UNCHANGED <<up, store, raced>>
      /\ p \in Ports /\ handler[h].pc = "applied"
      /\ handler'[h] = Idle /\ \A g \in Handlers \ {h} : handler'[g] = handler[g]
  BY HandlerFacts DEF TypeOK, ApplyCBS, Goto
<1>2. /\ \A q \in Ports : engines'[q].tas = engines[q].tas
      /\ \A q \in Ports \ {p} : engines'[q] = engines[q]
      /\ engines'[p].cbs = IF handler[h].cbs \in ValidCBS THEN handler[h].cbs
                           ELSE engines[p].cbs
  <2>1. CASE handler[h].cbs \in ValidCBS
    <3>1. engines' = [engines EXCEPT ![p].cbs = handler[h].cbs]
      BY <2>1 DEF ApplyCBS
    <3> QED
      BY <1>1, <2>1, <3>1, SetCBS DEF TypeOK
  <2>2. CASE handler[h].cbs \notin ValidCBS
    BY <2>2 DEF ApplyCBS
  <2> QED
    BY <2>1, <2>2
<1>3. \A g \in Handlers \ {h}, q \in Ports : Serving(g, q)' <=> Serving(g, q)
  BY <1>1 DEF Serving
<1>4. /\ \A q \in Ports : ~Serving(h, q)'
      /\ \A q \in Ports : Serving(h, q) <=> q = p
  BY <1>1 DEF Serving, Idle
<1>5. up
  BY <1>1 DEF SerialInv, DownIdle, Idle
<1>6. store[p].cbs \notin ValidCBS => handler[h].cbs = store[p].cbs /\ engines[p].cbs = store[p].cbs
  BY <1>1, <1>4, <1>5 DEF SerialInv, InvalidCBS
<1>7. InvalidCBS'
  <2> SUFFICES ASSUME up', NEW q \in Ports, store'[q].cbs \notin ValidCBS
               PROVE  /\ engines'[q].cbs = store'[q].cbs
                      /\ \A g \in Handlers :
                           Serving(g, q)' /\ handler'[g].pc \in {"apply", "applied"}
                             => handler'[g].cbs = store'[q].cbs
    BY DEF InvalidCBS
  <2>1. engines'[q].cbs = engines[q].cbs
    BY <1>1, <1>2, <1>6
  <2> QED
    BY <1>1, <1>3, <1>4, <2>1 DEF SerialInv, InvalidCBS
<1>8. Alone'
  <2> SUFFICES ASSUME NEW q \in Ports, q \notin raced
               PROVE  /\ \A f, g \in Handlers : Serving(f, q)' /\ Serving(g, q)' => f = g
                      /\ \A g \in Handlers : Serving(g, q)' => Progress(g, q)'
                      /\ up' /\ (\A g \in Handlers : ~Serving(g, q)') => engines'[q] = store'[q]
    BY <1>1 DEF Alone
  <2>1. CASE q = p
    <3>1. \A g \in Handlers : ~Serving(g, q)'
      BY <1>3, <1>4, <2>1 DEF SerialInv, Alone
    <3>2. Progress(h, p)
      BY <1>4, <2>1 DEF SerialInv, Alone
    <3>3. engines[p].tas = store[p].tas /\ handler[h].cbs = store[p].cbs
      BY <1>1, <3>2 DEF Progress
    <3>4. engines'[q].tas = store'[q].tas /\ engines'[q].cbs = store'[q].cbs
      BY <1>1, <1>2, <1>6, <2>1, <3>3
    <3>5. engines'[q] \in Pair /\ store'[q] \in Pair
      BY DEF TypeOK
    <3>6. engines'[q] = store'[q]
      BY <3>4, <3>5 DEF Pair
    <3> QED
      BY <3>1, <3>6
  <2>2. CASE q # p
    <3>1. \A g \in Handlers : Serving(g, q) => Progress(g, q)'
      <4> SUFFICES ASSUME NEW g \in Handlers, Serving(g, q) PROVE Progress(g, q)'
        OBVIOUS
      <4>1. Progress(g, q) /\ g # h
        BY <1>4, <2>2 DEF SerialInv, Alone
      <4> QED
        BY <1>1, <1>2, <2>2, <4>1 DEF Progress
    <3> QED
      BY <1>1, <1>2, <1>3, <1>4, <2>2, <3>1 DEF SerialInv, Alone
  <2> QED
    BY <2>1, <2>2
<1>9. DownIdle'
  BY <1>1, <1>5 DEF DownIdle
<1> QED
  BY <1>7, <1>8, <1>9 DEF SerialInv

LEMMA SerialNext ==
  TypeOK /\ TypeOK' /\ StoreValid /\ SerialInv /\ [Next]_vars => SerialInv'
<1> SUFFICES ASSUME TypeOK, TypeOK', StoreValid, SerialInv, [Next]_vars PROVE SerialInv'
  OBVIOUS
<1>1. CASE Start
  <2>1. \A h \in Handlers : handler'[h] = Idle
    BY <1>1 DEF Start, SerialInv, DownIdle
  <2>2. engines' = store' /\ up'
    BY <1>1 DEF Start
  <2>3. \A h \in Handlers, p \in Ports : ~Serving(h, p)'
    BY <2>1 DEF Serving, Idle
  <2> QED
    BY <2>2, <2>3 DEF SerialInv, DownIdle, InvalidCBS, Alone
<1>2. CASE Crash
  <2>1. ~up' /\ \A h \in Handlers : handler'[h] = Idle
    BY <1>2 DEF Crash
  <2>2. \A h \in Handlers, p \in Ports : ~Serving(h, p)'
    BY <2>1 DEF Serving, Idle
  <2> QED
    BY <2>1, <2>2 DEF SerialInv, DownIdle, InvalidCBS, Alone
<1>3. CASE (\E f \in Edits : Edit(f)) \/ UNCHANGED vars
  <2>1. UNCHANGED <<up, store, engines, handler, raced>>
    BY <1>3 DEF Edit, vars
  <2> QED
    BY <2>1 DEF SerialInv, DownIdle, InvalidCBS, Alone, Serving, Progress
<1>4. ASSUME NEW h \in Handlers, Update(h) PROVE SerialInv'
  <2>1. ASSUME NEW p \in Ports, NEW c \in TASConfigs,
               Store(h, p, [tas |-> c, cbs |-> store[p].cbs])
        PROVE SerialInv'
    <3>1. [tas |-> c, cbs |-> store[p].cbs] \in Pair
      BY DEF TypeOK, Pair
    <3> QED
      BY <2>1, <3>1, SerialStore
  <2>2. ASSUME NEW p \in Ports, NEW c \in CBSConfigs, c \in ValidCBS,
               Store(h, p, [tas |-> store[p].tas, cbs |-> c])
        PROVE SerialInv'
    <3>1. [tas |-> store[p].tas, cbs |-> c] \in Pair
      BY DEF TypeOK, Pair
    <3> QED
      BY <2>2, <3>1, SerialStore
  <2> QED
    BY <1>4, <2>1, <2>2, SerialRead, SerialApplyTAS, SerialApplyCBS DEF Update
<1> QED
  BY <1>1, <1>2, <1>3, <1>4 DEF Next

\* Requests that come one at a time on a port take effect, for any number of
\* ports and handlers, and heal what overlapping ones left behind.
THEOREM SerialFollow == Spec => []EnginesFollowSerial
<1>1. Init => StoreValid /\ SerialInv
  <2> SUFFICES ASSUME Init PROVE StoreValid /\ SerialInv
    OBVIOUS
  <2>1. \A h \in Handlers : handler[h] = Idle
    BY DEF Init
  <2>2. \A h \in Handlers, p \in Ports : ~Serving(h, p)
    BY <2>1 DEF Serving, Idle
  <2> QED
    BY <2>1, <2>2, LoadType DEF Init, StoreValid, SerialInv, DownIdle, InvalidCBS, Alone
<1>2. SerialInv => EnginesFollowSerial
  BY DEF SerialInv, Alone, Serving, EnginesFollowSerial, Quiet
<1> QED
  BY <1>1, <1>2, ValidNext, SerialNext, TypeCorrect, PTL DEF Spec

=============================================================================
