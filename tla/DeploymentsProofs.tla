--------------------------- MODULE DeploymentsProofs ---------------------------
(***************************************************************************)
(* Proofs about Deployments, for any number of chains, any of them Solana, *)
(* any settings and any order of failures: the state keeps its types, no   *)
(* chain is handed over before it is configured, and none is configured    *)
(* before all that take part are each other's peers.                       *)
(***************************************************************************)
EXTENDS Deployments, TLAPS

(* Transactions are left for no chain but the current one, and only while sending them. *)
IdleInv ==
    /\ current = NoChain => txs = {}
    /\ phase \notin {"register", "push"} => current = NoChain

(* What push saw done stays done, and what is not done yet it will still send. *)
SettingsInv ==
    /\ \A c \in Chains : read[c] \subseteq right[c] \cup {"owner"}
    /\ phase = "push" /\ current # NoChain => Settings \subseteq right[current] \cup txs

(* After the registrations all that take part know each other; during them every gap is
   still to be closed or remembered as an error. *)
PeersInv ==
    /\ phase \in {"owners", "register"} => failed \subseteq skip
    /\ phase = "register" /\ ~errors =>
         \A c \in Chains \ (skip \cup todo) :
           Wanted(c, Chains \ failed)
             \subseteq registered[c] \cup (IF c = current THEN txs ELSE {})
    /\ phase \in {"refetch", "push"} =>
         \A c \in Chains \ skip : Wanted(c, Chains \ skip) \subseteq registered[c]

--------------------------------------------------------------------------------
\* Types.

LEMMA InitTypes == Init => TypeOK
<1> SUFFICES ASSUME Init PROVE TypeOK
  OBVIOUS
<1>1. right \in [Chains -> SUBSET Settings]
  BY DEF Init
<1>2. registered \in [Chains -> SUBSET (Kinds \X Chains)]
  BY DEF Init
<1>3. owner \in [Chains -> {"signer", "proposed", "other"}]
  BY DEF Init
<1>4. read \in [Chains -> SUBSET Keys]
  BY DEF Init
<1> QED
  BY <1>1, <1>2, <1>3, <1>4 DEF Init, TypeOK, Phases

(* What a chain is asked to register is something a chain can register. *)
LEMMA WantedTypes ==
    ASSUME NEW c \in Chains, NEW deps \in SUBSET Chains
    PROVE  Wanted(c, deps) \subseteq Kinds \X Chains
BY DEF Wanted, PeersOf, Kinds

LEMMA ReadBackTypes ==
    ASSUME TypeOK, NEW c \in Chains, NEW unread \in SUBSET {"inbound"}
    PROVE  ReadBack(c, unread) \subseteq right[c] \cup {"owner"}
BY DEF ReadBack

LEMMA NextTypes == TypeOK /\ IdleInv /\ [Next]_vars => TypeOK'
<1> SUFFICES ASSUME TypeOK, IdleInv, [Next]_vars PROVE TypeOK'
  OBVIOUS
<1> USE DEF TypeOK, IdleInv
<1>1. CASE Reset /\ UNCHANGED chainVars
  BY <1>1 DEF Reset, chainVars, Phases
<1>2. CASE \E s \in SUBSET Chains : Start(s)
  BY <1>2 DEF Start, chainVars, Phases
<1>3. CASE \E c \in Chains : FetchOk(c)
  <2> PICK c \in Chains : FetchOk(c)
    BY <1>3
  <2>1. read' \in [Chains -> SUBSET Keys]
    <3> PICK unread \in SUBSET {"inbound"} :
          read' = [read EXCEPT ![c] = IF phase = "fetch" THEN {} ELSE ReadBack(c, unread)]
      BY DEF FetchOk
    <3> ReadBack(c, unread) \subseteq Keys
      BY ReadBackTypes DEF Keys
    <3> QED
      OBVIOUS
  <2> QED
    BY <2>1 DEF FetchOk, chainVars, optionVars
<1>4. CASE \E c \in Chains : BeginChain(c)
  <2> PICK c \in Chains : BeginChain(c)
    BY <1>4
  <2>1. txs' \subseteq IF phase = "register" THEN Kinds \X Chains ELSE Keys
    BY WantedTypes DEF BeginChain
  <2> QED
    BY <2>1 DEF BeginChain, chainVars, optionVars
<1>5. CASE Fetched
  BY <1>5 DEF Fetched, chainVars, optionVars, Phases
<1>6. CASE CheckOwners
  BY <1>6 DEF CheckOwners, chainVars, optionVars, Phases
<1>7. CASE EndChain
  BY <1>7 DEF EndChain, chainVars, optionVars
<1>8. CASE Registered
  BY <1>8 DEF Registered, chainVars, optionVars, Phases
<1>9. CASE Refetched
  BY <1>9 DEF Refetched, chainVars, optionVars, Phases
<1>10. CASE PushOwner
  BY <1>10 DEF PushOwner, optionVars
<1>11. CASE \E i \in Kinds \X Chains : Register(i)
  <2> PICK i \in Kinds \X Chains : Register(i)
    BY <1>11
  <2>1. right' \in [Chains -> SUBSET Settings]
    <3> PICK limits \in LimitsAfter(i) : right' = [right EXCEPT ![current] = @ \cup limits]
      BY DEF Register
    <3> limits \subseteq Settings
      BY DeploymentsAssumption DEF LimitsAfter
    <3> QED
      OBVIOUS
  <2> QED
    BY <2>1 DEF Register, optionVars
<1>12. CASE \E key \in Settings : PushSetting(key)
  BY <1>12 DEF PushSetting, optionVars
<1>13. CASE \E c \in Chains : FetchFails(c)
  BY <1>13 DEF FetchFails, chainVars, optionVars
<1>14. CASE \E c \in Chains : Claim(c)
  BY <1>14 DEF Claim, optionVars, runVars
<1>15. CASE \E i \in Kinds \X Chains : RegisterFails(i)
  BY <1>15 DEF RegisterFails, Refused, chainVars, optionVars
<1>16. CASE UNCHANGED vars
  BY <1>16 DEF vars, chainVars, optionVars, runVars
<1> QED
  BY <1>1, <1>2, <1>3, <1>4, <1>5, <1>6, <1>7, <1>8, <1>9, <1>10, <1>11, <1>12, <1>13,
     <1>14, <1>15, <1>16 DEF Next, Push, Abort, Crash, Pushed

LEMMA InitIdle == Init => IdleInv
BY DEF Init, IdleInv

LEMMA NextIdle == TypeOK /\ IdleInv /\ [Next]_vars => IdleInv'
<1> SUFFICES ASSUME TypeOK, IdleInv, [Next]_vars PROVE IdleInv'
  OBVIOUS
<1> USE DEF IdleInv
<1>1. CASE Reset /\ UNCHANGED chainVars
  BY <1>1 DEF Reset
<1>2. CASE \E s \in SUBSET Chains : Start(s)
  BY <1>2 DEF Start
<1>3. CASE \E c \in Chains : FetchOk(c) \/ FetchFails(c)
  BY <1>3 DEF FetchOk, FetchFails
<1>4. CASE \E c \in Chains : BeginChain(c)
  BY <1>4, DeploymentsAssumption DEF BeginChain
<1>5. CASE Fetched \/ CheckOwners \/ EndChain \/ Registered \/ Refetched
  BY <1>5 DEF Fetched, CheckOwners, EndChain, Registered, Refetched
<1>6. CASE PushOwner
  BY <1>6 DEF PushOwner
<1>7. CASE \E i \in Kinds \X Chains : Register(i) \/ RegisterFails(i)
  BY <1>7 DEF Register, RegisterFails
<1>8. CASE \E key \in Settings : PushSetting(key)
  BY <1>8 DEF PushSetting
<1>9. CASE \E c \in Chains : Claim(c)
  BY <1>9 DEF Claim, runVars
<1>10. CASE UNCHANGED vars
  BY <1>10 DEF vars, runVars
<1> QED
  BY <1>1, <1>2, <1>3, <1>4, <1>5, <1>6, <1>7, <1>8, <1>9, <1>10
  DEF Next, Push, Abort, Crash, Pushed

(* The state of the chains, the file and the command keeps its types. *)
THEOREM PushTypes == Spec => []TypeOK
<1>1. TypeOK /\ IdleInv /\ [Next]_vars => (TypeOK /\ IdleInv)'
  BY NextTypes, NextIdle
<1> QED
  BY InitTypes, InitIdle, <1>1, PTL DEF Spec

--------------------------------------------------------------------------------
\* No chain is handed over before it is configured.

LEMMA InitSettings == Init => SettingsInv /\ HandedOverConfigured
BY DEF Init, SettingsInv, HandedOverConfigured

(* Only transactions change the settings of a chain, and they only make them right. *)
LEMMA SettingsStayRight ==
    TypeOK /\ IdleInv /\ [Next]_vars => \A c \in Chains : right[c] \subseteq right'[c]
<1> SUFFICES ASSUME TypeOK, IdleInv, [Next]_vars, NEW c \in Chains
             PROVE  right[c] \subseteq right'[c]
  OBVIOUS
<1> USE DEF TypeOK
<1>1. CASE \E i \in Kinds \X Chains : Register(i)
  BY <1>1 DEF Register
<1>2. CASE \E key \in Settings : PushSetting(key)
  BY <1>2 DEF PushSetting
<1>3. CASE UNCHANGED right
  BY <1>3
<1> QED
  BY <1>1, <1>2, <1>3
  DEF Next, Push, Start, Reset, Abort, Crash, Pushed, FetchOk, FetchFails, BeginChain, Fetched,
      CheckOwners, EndChain, Registered, Refetched, PushOwner, RegisterFails, Claim,
      vars, chainVars

LEMMA NextSettings == TypeOK /\ IdleInv /\ SettingsInv /\ [Next]_vars => SettingsInv'
<1> SUFFICES ASSUME TypeOK, IdleInv, SettingsInv, [Next]_vars PROVE SettingsInv'
  OBVIOUS
<1>0. \A c \in Chains : right[c] \subseteq right'[c]
  BY SettingsStayRight
<1>k. \A c \in Chains : read[c] \subseteq right'[c] \cup {"owner"}
  BY <1>0 DEF SettingsInv
<1> USE DEF TypeOK, IdleInv, SettingsInv
<1>1. CASE Reset /\ UNCHANGED chainVars
  BY <1>1 DEF Reset
<1>2. CASE \E s \in SUBSET Chains : Start(s)
  BY <1>2, <1>k DEF Start
<1>3. CASE \E c \in Chains : FetchOk(c)
  <2> PICK c \in Chains, unread \in SUBSET {"inbound"} :
        /\ FetchOk(c)
        /\ read' = [read EXCEPT ![c] = IF phase = "fetch" THEN {} ELSE ReadBack(c, unread)]
    BY <1>3 DEF FetchOk
  <2>1. ReadBack(c, unread) \subseteq right[c] \cup {"owner"}
    BY ReadBackTypes
  <2>2. \A d \in Chains : read'[d] \subseteq right'[d] \cup {"owner"}
    BY <2>1, <1>0, <1>k
  <2> QED
    BY <2>2 DEF FetchOk
<1>4. CASE \E c \in Chains : BeginChain(c)
  <2> PICK c \in Chains : BeginChain(c)
    BY <1>4
  <2>1. ASSUME phase = "push"
        PROVE  Settings \subseteq right[c] \cup (Keys \ read[c])
    BY DeploymentsAssumption DEF Keys
  <2> QED
    BY <1>k, <2>1 DEF BeginChain, chainVars
<1>5. CASE Fetched \/ CheckOwners \/ EndChain \/ Registered \/ Refetched
  BY <1>5, <1>k DEF Fetched, CheckOwners, EndChain, Registered, Refetched, chainVars
<1>6. CASE PushOwner
  BY <1>6, <1>k, DeploymentsAssumption DEF PushOwner
<1>7. CASE \E i \in Kinds \X Chains : Register(i) \/ RegisterFails(i)
  BY <1>7, <1>k DEF Register, RegisterFails
<1>8. CASE \E key \in Settings : PushSetting(key)
  BY <1>8, <1>k DEF PushSetting
<1>9. CASE \E c \in Chains : Claim(c) \/ FetchFails(c)
  BY <1>9, <1>k DEF Claim, FetchFails, chainVars, runVars
<1>10. CASE UNCHANGED vars
  BY <1>10 DEF vars, chainVars, runVars
<1> QED
  BY <1>1, <1>2, <1>3, <1>4, <1>5, <1>6, <1>7, <1>8, <1>9, <1>10
  DEF Next, Push, Abort, Crash, Pushed

LEMMA NextHandedOver ==
    TypeOK /\ IdleInv /\ SettingsInv /\ HandedOverConfigured /\ [Next]_vars
      => HandedOverConfigured'
<1> SUFFICES ASSUME TypeOK, IdleInv, SettingsInv, HandedOverConfigured, [Next]_vars,
                    TypeOK', NEW c \in Chains, owner'[c] # "signer"
             PROVE  right'[c] = Settings
  BY NextTypes DEF HandedOverConfigured
<1>1. right[c] \subseteq right'[c] /\ right'[c] \subseteq Settings
  BY SettingsStayRight DEF TypeOK
<1>2. CASE PushOwner /\ c = current
  <2>1. txs = {"owner"} /\ current # NoChain
    BY <1>2 DEF PushOwner, OwnerLast, IdleInv
  <2> QED
    BY <1>1, <1>2, <2>1, DeploymentsAssumption DEF PushOwner, SettingsInv
<1>3. CASE PushOwner /\ c # current
  BY <1>1, <1>3 DEF PushOwner, HandedOverConfigured, TypeOK
<1>4. CASE \E d \in Chains : Claim(d)
  BY <1>1, <1>4 DEF Claim, HandedOverConfigured, TypeOK
<1>5. CASE UNCHANGED owner
  BY <1>1, <1>5 DEF HandedOverConfigured
<1> QED
  BY <1>2, <1>3, <1>4, <1>5
  DEF Next, Push, Start, Reset, Abort, Crash, Pushed, FetchOk, FetchFails, BeginChain, Fetched,
      CheckOwners, EndChain, Registered, Refetched, Register, RegisterFails, PushSetting,
      vars, chainVars

(* Wherever runs ended and whatever failed: the owner goes last. *)
THEOREM OwnerGoesLast == Spec => []HandedOverConfigured
<1> DEFINE Inv == TypeOK /\ IdleInv /\ SettingsInv /\ HandedOverConfigured
<1>1. Init => Inv
  BY InitTypes, InitIdle, InitSettings
<1>2. Inv /\ [Next]_vars => Inv'
  BY NextTypes, NextIdle, NextSettings, NextHandedOver
<1>3. Inv => HandedOverConfigured
  OBVIOUS
<1> HIDE DEF Inv
<1> QED
  BY <1>1, <1>2, <1>3, PTL DEF Spec

--------------------------------------------------------------------------------
\* No chain is configured before all that take part are peers.

LEMMA WantedGrows ==
    ASSUME NEW c \in Chains, NEW some \in SUBSET Chains, NEW all \in SUBSET Chains,
           some \subseteq all
    PROVE  Wanted(c, some) \subseteq Wanted(c, all)
BY DEF Wanted, PeersOf

LEMMA InitPeers == Init => PeersInv
BY DEF Init, PeersInv

LEMMA NextPeers == TypeOK /\ IdleInv /\ PeersInv /\ [Next]_vars => PeersInv'
<1> SUFFICES ASSUME TypeOK, IdleInv, PeersInv, [Next]_vars PROVE PeersInv'
  OBVIOUS
<1> USE DEF TypeOK, IdleInv, PeersInv
<1>1. CASE Reset /\ UNCHANGED chainVars
  BY <1>1 DEF Reset
<1>2. CASE \E s \in SUBSET Chains : Start(s)
  BY <1>2 DEF Start
<1>3. CASE \E c \in Chains : FetchOk(c) \/ FetchFails(c)
  BY <1>3 DEF FetchOk, FetchFails, chainVars, optionVars
<1>4. CASE \E c \in Chains : BeginChain(c)
  <2> PICK c \in Chains : BeginChain(c)
    BY <1>4
  <2>1. ASSUME phase = "register", ~errors, NEW d \in Chains \ (skip \cup todo')
        PROVE  Wanted(d, Chains \ failed)
                 \subseteq registered[d] \cup (IF d = c THEN txs' ELSE {})
    <3>1. CASE d = c
      BY <2>1, <3>1 DEF BeginChain
    <3>2. CASE d # c
      <4>1. d \in Chains \ (skip \cup todo) /\ txs = {}
        BY <2>1, <3>2 DEF BeginChain
      <4> QED
        BY <2>1, <3>2, <4>1
    <3> QED
      BY <3>1, <3>2
  <2> QED
    BY <2>1 DEF BeginChain, chainVars, optionVars
<1>5. CASE Fetched
  BY <1>5 DEF Fetched, chainVars, optionVars
<1>6. CASE CheckOwners
  BY <1>6 DEF CheckOwners, chainVars, optionVars
<1>7. CASE EndChain
  BY <1>7, DeploymentsAssumption DEF EndChain, chainVars, optionVars
<1>8. CASE Registered
  <2>1. ASSUME NEW c \in Chains \ skip
        PROVE  Wanted(c, Chains \ skip) \subseteq registered[c]
    BY <1>8, WantedGrows, DeploymentsAssumption DEF Registered
  <2> QED
    BY <1>8, <2>1 DEF Registered, chainVars, optionVars
<1>9. CASE Refetched
  BY <1>9 DEF Refetched, chainVars, optionVars
<1>10. CASE \E i \in Kinds \X Chains : Register(i)
  <2> PICK i \in Kinds \X Chains : Register(i)
    BY <1>10
  <2>1. phase = "register" /\ UNCHANGED <<phase, todo, failed, skip, current, errors>>
    BY DEF Register, optionVars
  <2>2. ASSUME NEW c \in Chains
        PROVE  registered[c] \cup (IF c = current THEN txs ELSE {})
                 \subseteq registered'[c] \cup (IF c = current THEN txs' ELSE {})
    BY DEF Register
  <2> QED
    BY <2>1, <2>2
<1>11. CASE \E i \in Kinds \X Chains : RegisterFails(i)
  BY <1>11 DEF RegisterFails, Refused, chainVars, optionVars
<1>12. CASE PushOwner \/ \E key \in Settings : PushSetting(key)
  BY <1>12 DEF PushOwner, PushSetting, optionVars
<1>13. CASE \E c \in Chains : Claim(c)
  <2>1. UNCHANGED <<registered, optionVars, runVars>>
    BY <1>13 DEF Claim
  <2> QED
    BY <2>1 DEF optionVars, runVars
<1>14. CASE UNCHANGED vars
  BY <1>14 DEF vars, chainVars, optionVars, runVars
<1> QED
  BY <1>1, <1>2, <1>3, <1>4, <1>5, <1>6, <1>7, <1>8, <1>9, <1>10, <1>11, <1>12, <1>13, <1>14
  DEF Next, Push, Abort, Crash, Pushed

(* The registrations come before everything else, and errors in them are not lost. *)
THEOREM PeersGoFirst == Spec => []PeeredBeforePush
<1> DEFINE Inv == TypeOK /\ IdleInv /\ PeersInv
<1>1. Init => Inv
  BY InitTypes, InitIdle, InitPeers
<1>2. Inv /\ [Next]_vars => Inv'
  BY NextTypes, NextIdle, NextPeers
<1>3. Inv => PeeredBeforePush
  BY DEF PeersInv, PeeredBeforePush
<1> HIDE DEF Inv
<1> QED
  BY <1>1, <1>2, <1>3, PTL DEF Spec

================================================================================
