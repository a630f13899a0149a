-------------------------- MODULE TransferRouteProofs --------------------------
(***************************************************************************)
(* What a receipt of the SDK says of the destination is so, for any number *)
(* of transceivers and whatever the owner, the relayers and the executor   *)
(* do between two reads.  The destination only ever grows: votes stay, and *)
(* a message goes from not approved to queued to paid.  So what was read   *)
(* of it earlier is no more than what is so now.                           *)
(***************************************************************************)
EXTENDS TransferRoute, FiniteSetTheorems, TLAPS

--------------------------------------------------------------------------------
\* The destination.

Executed == status[Transfer] \in {"Queued", "Paid"}

DestInv ==
    /\ Dest!TypeOK
    /\ threshold # 0
    /\ Executed => Voters # {}

(* A step of the destination, as a receipt can tell. *)
DestGrows ==
    /\ DestInv'
    /\ Voters \subseteq Voters'
    /\ Executed => Executed'
    /\ Paid => Paid'

LEMMA SameCardinality == \A S : Dest!Cardinality(S) = Cardinality(S)
BY DEF Cardinality, Dest!Cardinality

(* A quorum has somebody in it. *)
LEMMA QuorumNotEmpty ==
  ASSUME NEW S, NEW n \in Nat, n # 0, Dest!Cardinality(S \cap enabled) >= n
  PROVE  S # {}
<1> SUFFICES ASSUME S = {} PROVE FALSE
  OBVIOUS
<1>1. S \cap enabled = {}
  OBVIOUS
<1>2. Dest!Cardinality(S \cap enabled) = 0
  BY <1>1, SameCardinality, FS_EmptySet
<1> QED
  BY <1>2

LEMMA DestTypes ==
  ASSUME Dest!TypeOK
  PROVE  /\ votes \in [{Transfer} -> SUBSET Transceivers]
         /\ status \in [{Transfer} -> {"NotApproved", "Queued", "Paid"}]
         /\ enabled \subseteq Transceivers
         /\ threshold \in Nat
BY DEF Dest!TypeOK

(* A message only goes forward. *)
StatusGrows ==
    /\ status' \in [{Transfer} -> {"NotApproved", "Queued", "Paid"}]
    /\ Executed => Executed'
    /\ Paid => Paid'

LEMMA VoteGrows ==
  ASSUME DestInv, NEW t \in Transceivers, Dest!Vote(Transfer, t)
  PROVE  DestGrows
<1>1. /\ votes \in [{Transfer} -> SUBSET Transceivers]
      /\ status \in [{Transfer} -> {"NotApproved", "Queued", "Paid"}]
      /\ enabled' = enabled /\ threshold' = threshold
      /\ votes' = [votes EXCEPT ![Transfer] = @ \cup {t}]
  BY DestTypes DEF DestInv, Dest!Vote
<1>2. /\ votes' \in [{Transfer} -> SUBSET Transceivers]
      /\ votes'[Transfer] = votes[Transfer] \cup {t}
  BY <1>1
<1>3. StatusGrows
  <2>1. CASE UNCHANGED status
    BY <1>1, <2>1 DEF StatusGrows, Executed, Paid
  <2>2. ASSUME status[Transfer] = "NotApproved", NEW s \in Dest!Executed,
               status' = [status EXCEPT ![Transfer] = s]
        PROVE  StatusGrows
    BY <1>1, <2>2 DEF StatusGrows, Executed, Paid, Dest!Executed
  <2>3. CASE status[Transfer] = "Queued" /\ status' = [status EXCEPT ![Transfer] = "Paid"]
    BY <1>1, <2>3 DEF StatusGrows, Executed, Paid
  <2> QED
    BY <2>1, <2>2, <2>3 DEF Dest!Vote
<1>4. Voters \subseteq Voters' /\ Voters' # {}
  BY <1>2 DEF Voters
<1>5. DestInv'
  BY <1>1, <1>2, <1>3, <1>4 DEF StatusGrows, DestInv, Dest!TypeOK
<1> QED
  BY <1>3, <1>4, <1>5 DEF StatusGrows, DestGrows

LEMMA ExecuteGrows ==
  ASSUME DestInv, Dest!Execute(Transfer)
  PROVE  DestGrows
<1>1. /\ status \in [{Transfer} -> {"NotApproved", "Queued", "Paid"}]
      /\ enabled' = enabled /\ threshold' = threshold /\ votes' = votes
      /\ threshold \in Nat /\ threshold # 0
      /\ status[Transfer] = "NotApproved"
  BY DestTypes DEF DestInv, Dest!Execute
<1>2. Voters # {}
  BY <1>1, QuorumNotEmpty DEF Dest!Execute, Dest!Quorum, Voters
<1>3. PICK s \in {"Queued", "Paid"} : status' = [status EXCEPT ![Transfer] = s]
  BY DEF Dest!Execute, Dest!Executed
<1> QED
  BY <1>1, <1>2, <1>3 DEF DestInv, DestGrows, Voters, Executed, Paid, Dest!TypeOK

LEMMA CompleteGrows ==
  ASSUME DestInv, Dest!Complete(Transfer)
  PROVE  DestGrows
<1>1. /\ status \in [{Transfer} -> {"NotApproved", "Queued", "Paid"}]
      /\ enabled' = enabled /\ threshold' = threshold /\ votes' = votes
      /\ status[Transfer] = "Queued"
      /\ status' = [status EXCEPT ![Transfer] = "Paid"]
  BY DestTypes DEF DestInv, Dest!Complete
<1> QED
  BY <1>1 DEF DestInv, DestGrows, Voters, Executed, Paid, Dest!TypeOK

LEMMA QuietGrows ==
  ASSUME DestInv, UNCHANGED <<votes, status, enabled, threshold>>
  PROVE  DestGrows
BY DEF DestInv, DestGrows, Voters, Executed, Paid, Dest!TypeOK

LEMMA AdministerGrows ==
  ASSUME DestInv, Administer
  PROVE  DestGrows
<1>1. Dest!Administer /\ threshold' # 0
  BY DEF Administer
<1> QED
  BY <1>1 DEF Dest!Administer, DestInv, DestGrows, Voters, Executed, Paid, Dest!TypeOK

(* Every step of the destination, whoever's transaction it is in. *)
LEMMA DestStep ==
  ASSUME DestInv, [Next]_vars
  PROVE  DestGrows
<1>1. ASSUME NEW t \in Transceivers, VoteFor(t)
      PROVE  DestGrows
  BY <1>1, VoteGrows DEF VoteFor
<1>2. ASSUME NEW t \in Transceivers, Relay(t)
      PROVE  DestGrows
  BY <1>1, <1>2 DEF Relay
<1>3. Execute => DestGrows
  BY ExecuteGrows DEF Execute
<1>4. CompleteQueued => DestGrows
  BY CompleteGrows DEF CompleteQueued
<1>5. Complete => DestGrows
  BY <1>1, RouteAssumption DEF Complete
<1>6. Finalize => DestGrows
  BY CompleteGrows, QuietGrows DEF Finalize, FinalizeTx
<1>7. QueueOver \/ Sign \/ Report \/ Initiate \/ Resume \/ Track \/ ReadThrows \/ Read
        \/ UNCHANGED vars => DestGrows
  BY QuietGrows DEF QueueOver, Sign, Report, Initiate, Resume, Track, ReadThrows, Read,
     ReadVaa, ReadRelay, ReadAxelar, ReadApproved, ReadTransceivers, ReadQueued, ReadExecuted,
     ReadStillQueued, vars, destVars
<1> QED
  BY <1>2, <1>3, <1>4, <1>5, <1>6, <1>7, AdministerGrows DEF Next, ClientNext

LEMMA InitDest == Init => DestInv
<1> SUFFICES ASSUME Init PROVE DestInv
  OBVIOUS
<1>1. Cardinality(Transceivers) \in Nat
  BY RouteAssumption, FS_CardinalityType
<1>2. threshold \in Nat /\ threshold # 0
  BY <1>1 DEF Init
<1> QED
  BY <1>2 DEF Init, DestInv, Dest!TypeOK, Executed

--------------------------------------------------------------------------------
\* The receipt.

(* A receipt is true, and a track that is about to look into the queue once more has
   seen the message executed. *)
ReceiptInv ==
    /\ ReceiptIsTrue
    /\ reading = "stillQueued" => platform = "Evm" /\ Executed

LEMMA ApprovedHasVotes ==
  ASSUME DestInv, IsApproved
  PROVE  Voters # {}
<1>1. threshold \in Nat /\ threshold # 0
  BY DestTypes DEF DestInv
<1>2. Dest!Quorum(Voters) => Voters # {}
  BY <1>1, QuorumNotEmpty DEF Dest!Quorum
<1> QED
  BY <1>2 DEF IsApproved, EvmIsApproved, SolanaIsApproved, SuiIsApproved

(* The three claims a receipt can make of a destination that can be asked. *)
Claims ==
    /\ receipt \in {"DestinationInitiated", "DestinationQueued"} => Voters # {}
    /\ receipt = "DestinationQueued" => Executed
    /\ receipt = "DestinationFinalized" => Paid \/ (platform = "Solana" /\ Queued)

LEMMA TrueClaims == ReceiptIsTrue <=> (platform # "Xrpl" => Claims)
BY DEF ReceiptIsTrue, Claims, Executed, Dest!Executed

LEMMA StatusCases == DestInv => (Executed <=> Queued \/ Paid)
BY DEF Executed, Queued, Paid

(* What was true of the destination stays true. *)
LEMMA ClaimsStay ==
  ASSUME DestInv, DestGrows, Claims, UNCHANGED <<receipt, platform>>
  PROVE  Claims'
<1>1. Queued => Queued' \/ Paid'
  BY DEF DestGrows, Executed, Queued, Paid
<1> QED
  BY <1>1 DEF Claims, DestGrows

LEMMA ClientReads ==
  ASSUME DestInv, DestGrows, ReceiptInv, Read
  PROVE  ReceiptInv'
<1>1. /\ platform' = platform
      /\ UNCHANGED <<votes, status>>
      /\ Voters' = Voters /\ (Queued' <=> Queued) /\ (Paid' <=> Paid) /\ (Executed' <=> Executed)
  BY DEF Read, ReadVaa, ReadRelay, ReadAxelar, ReadApproved, ReadTransceivers, ReadQueued,
     ReadExecuted, ReadStillQueued, rigidVars, destVars, Voters, Queued, Paid, Executed
<1>2. CASE platform = "Xrpl"
  <2>1. reading' # "stillQueued"
    BY <1>2 DEF Read, ReadVaa, ReadRelay, ReadMultiTokenRelay, ReadExecutorRelay, ReadAxelar,
       ReadApproved, ReadTransceivers, ReadQueued, ReadExecuted, ReadStillQueued,
       ReadAfterVaa, NextTransceiver, RelayerOf
  <2> QED
    BY <1>1, <1>2, <2>1 DEF ReceiptInv, ReceiptIsTrue
<1>3. CASE platform # "Xrpl"
  <2>0. Claims
    BY <1>3, TrueClaims DEF ReceiptInv
  <2>1. CASE ReadVaa \/ ReadRelay \/ ReadAxelar \/ ReadTransceivers
    <3>1. receipt' = receipt \/ receipt' \in {"Attested", "Failed"}
      BY <1>3, <2>1 DEF ReadVaa, ReadRelay, ReadMultiTokenRelay, ReadExecutorRelay, ReadAxelar,
         ReadTransceivers
    <3>2. reading' # "stillQueued"
      BY <2>1 DEF ReadVaa, ReadRelay, ReadMultiTokenRelay, ReadExecutorRelay, ReadAxelar,
         ReadTransceivers, ReadAfterVaa, NextTransceiver, RelayerOf
    <3>3. Claims'
      BY <1>1, <2>0, <3>1 DEF Claims
    <3> QED
      BY <3>2, <3>3 DEF ReceiptInv, ReceiptIsTrue, Claims, Executed, Dest!Executed
  <2>2. CASE ReadApproved
    <3>1. IsApproved => Voters # {}
      BY ApprovedHasVotes
    <3>2. Claims' /\ reading' # "stillQueued"
      BY <1>1, <2>0, <2>2, <3>1 DEF ReadApproved, Claims, NextTransceiver
    <3> QED
      BY <3>2 DEF ReceiptInv, ReceiptIsTrue, Claims, Executed, Dest!Executed
  <2>3. CASE ReadQueued
    <3>1. Queued => Executed /\ Voters # {}
      BY DEF Queued, Executed, DestInv
    <3>2. Claims' /\ reading' # "stillQueued"
      BY <1>1, <2>0, <2>3, <3>1 DEF ReadQueued, Claims, HasInboundQueued
    <3> QED
      BY <3>2 DEF ReceiptInv, ReceiptIsTrue, Claims, Executed, Dest!Executed
  <2>4. CASE ReadExecuted
    <3>1. Claims'
      BY <1>1, <2>0, <2>4 DEF ReadExecuted, Claims, IsReleased
    <3>2. reading' = "stillQueued" => platform = "Evm" /\ Executed
      BY <2>4 DEF ReadExecuted, Executed, Dest!Executed
    <3> QED
      BY <1>1, <3>1, <3>2 DEF ReceiptInv, ReceiptIsTrue, Claims, Executed, Dest!Executed
  <2>5. CASE ReadStillQueued
    <3>1. Executed
      BY <2>5 DEF ReadStillQueued, ReceiptInv
    <3>2. Claims' /\ reading' # "stillQueued"
      BY <1>1, <2>0, <2>5, <3>1 DEF ReadStillQueued, EvmStillQueued, Claims, Executed, Queued, Paid
    <3> QED
      BY <3>2 DEF ReceiptInv, ReceiptIsTrue, Claims, Executed, Dest!Executed
  <2> QED
    BY <2>1, <2>2, <2>3, <2>4, <2>5 DEF Read
<1> QED
  BY <1>2, <1>3

LEMMA ReceiptStep ==
  ASSUME DestInv, ReceiptInv, [Next]_vars
  PROVE  ReceiptInv'
<1>0. DestGrows
  BY DestStep
<1>1. CASE UNCHANGED <<receipt, platform>> /\ reading' # "stillQueued"
  <2>1. platform # "Xrpl" => Claims
    BY TrueClaims DEF ReceiptInv
  <2>2. platform # "Xrpl" => Claims'
    BY <1>0, <1>1, <2>1, ClaimsStay
  <2> QED
    BY <1>1, <2>2 DEF ReceiptInv, ReceiptIsTrue, Claims, Executed, Dest!Executed
<1>2. CASE UNCHANGED <<receipt, platform, reading>>
  <2>1. reading = "stillQueued" => platform = "Evm" /\ Executed
    BY DEF ReceiptInv
  <2>2. platform # "Xrpl" => Claims'
    BY <1>0, <1>2, TrueClaims, ClaimsStay DEF ReceiptInv
  <2> QED
    BY <1>0, <1>2, <2>1, <2>2 DEF DestGrows, ReceiptInv, ReceiptIsTrue, Claims, Executed, Dest!Executed
<1>3. ASSUME NEW t \in Transceivers, Relay(t)
      PROVE  UNCHANGED <<receipt, platform, reading>>
  BY <1>3 DEF Relay, rigidVars, clientVars
<1>4. Execute \/ CompleteQueued \/ QueueOver \/ Administer \/ Sign \/ Report \/ UNCHANGED vars
        => UNCHANGED <<receipt, platform, reading>>
  BY DEF Execute, CompleteQueued, QueueOver, Administer, Sign, Report, rigidVars, clientVars,
     vars
<1>5. Track \/ ReadThrows => UNCHANGED <<receipt, platform>> /\ reading' # "stillQueued"
  BY DEF Track, ReadThrows, ReadAfterVaa, rigidVars
<1>6. CASE Initiate \/ Resume
  <2>1. receipt' \in {"SourceInitiated", "Attested"} /\ reading' = reading
        /\ UNCHANGED <<platform, status>>
    BY <1>6 DEF Initiate, Resume, rigidVars, destVars
  <2> QED
    BY <2>1 DEF ReceiptInv, ReceiptIsTrue, Executed
<1>7. CASE Complete
  <2>1. /\ receipt' = receipt \/ receipt' = "DestinationInitiated"
        /\ reading' = "idle" /\ platform' = platform /\ Voters' # {}
    <3>1. /\ receipt' = receipt \/ receipt' = "DestinationInitiated"
          /\ reading' = "idle" /\ platform' = platform
          /\ votes' = [votes EXCEPT ![Transfer] = @ \cup {Wormhole}]
      BY <1>7 DEF Complete, VoteFor, Dest!Vote, rigidVars
    <3>2. votes \in [{Transfer} -> SUBSET Transceivers]
      BY DestTypes DEF DestInv
    <3> QED
      BY <3>1, <3>2 DEF Voters
  <2>2. CASE receipt' = receipt
    BY <1>1, <2>1, <2>2
  <2>3. CASE receipt' = "DestinationInitiated"
    BY <2>1, <2>3 DEF ReceiptInv, ReceiptIsTrue
  <2> QED
    BY <2>1, <2>2, <2>3
<1>8. CASE Finalize
  <2>1. receipt' = "DestinationFinalized" /\ reading' = "idle" /\ platform' = platform
    BY <1>8 DEF Finalize, rigidVars
  <2>2. Paid' \/ (platform = "Solana" /\ Queued')
    <3>1. status \in [{Transfer} -> {"NotApproved", "Queued", "Paid"}]
      BY DestTypes DEF DestInv
    <3> QED
      BY <1>8, <3>1 DEF Finalize, FinalizeTx, Dest!Complete, Paid, Queued
  <2> QED
    BY <2>1, <2>2 DEF ReceiptInv, ReceiptIsTrue
<1>9. Read => ReceiptInv'
  BY <1>0, ClientReads
<1> QED
  BY <1>1, <1>2, <1>3, <1>4, <1>5, <1>6, <1>7, <1>8, <1>9 DEF Next, ClientNext

(* Whatever happens between two reads of a track, and however often a client resumes,
   tracks, completes and finalizes, its receipt claims nothing of the destination that
   is not so (executor.ts:801-917, manual.ts:351-417). *)
THEOREM ReceiptsAreTrue == Spec => []ReceiptIsTrue
<1>1. Init => DestInv /\ ReceiptInv
  <2>1. Init => ReceiptInv
    BY DEF Init, ReceiptInv, ReceiptIsTrue
  <2> QED
    BY <2>1, InitDest
<1>2. (DestInv /\ ReceiptInv) /\ [Next]_vars => (DestInv /\ ReceiptInv)'
  BY DestStep, ReceiptStep DEF DestGrows
<1>3. ReceiptInv => ReceiptIsTrue
  BY DEF ReceiptInv
<1> QED
  BY <1>1, <1>2, <1>3, PTL DEF Spec


--------------------------------------------------------------------------------
\* The types, and the end of the loop over the transceivers.

Reads ==
    {"idle", "vaa", "relay", "axelar", "transceivers", "approved", "queued", "executed",
     "stillQueued"}

LEMMA NextIsThere ==
  ASSUME NEW known, known \subseteq Transceivers
  PROVE  /\ NextTransceiver(known) \in Reads
         /\ NextTransceiver(known) = "transceivers" => known # Transceivers
BY DEF NextTransceiver, Reads

LEMMA ReadTypes ==
  ASSUME TypeOK, Read
  PROVE  /\ receipt' \in ReceiptStates
         /\ attested' \subseteq Transceivers
         /\ reading' \in Reads
         /\ reading' = "transceivers" => attested' # Transceivers
         /\ UNCHANGED <<route, platform, vaa, relay, ready>>
<1>1. UNCHANGED <<route, platform, vaa, relay, ready>>
  BY DEF Read, ReadVaa, ReadRelay, ReadAxelar, ReadApproved, ReadTransceivers, ReadQueued,
     ReadExecuted, ReadStillQueued, rigidVars, destVars
<1>2. CASE ReadVaa \/ ReadRelay \/ ReadAxelar
  BY <1>1, <1>2 DEF ReadVaa, ReadRelay, ReadMultiTokenRelay, ReadExecutorRelay, ReadAxelar,
     ReadAfterVaa, TypeOK, ReceiptStates, Reads
<1>3. CASE ReadApproved
  BY <1>1, <1>3, NextIsThere DEF ReadApproved, TypeOK, ReceiptStates, Reads
<1>4. CASE ReadTransceivers
  <2>1. PICK t \in Transceivers \ attested :
           IF t \in Voters
           THEN /\ attested' = attested \cup {t}
                /\ receipt' = "Attested"
                /\ reading' = NextTransceiver(attested')
           ELSE /\ reading' = RelayerOf(t)
                /\ UNCHANGED <<receipt, attested>>
    BY <1>4 DEF ReadTransceivers
  <2>2. RelayerOf(t) \in Reads \ {"transceivers"}
    BY DEF RelayerOf, Reads
  <2> QED
    BY <1>1, <2>1, <2>2, NextIsThere DEF TypeOK, ReceiptStates
<1>5. CASE ReadQueued \/ ReadExecuted \/ ReadStillQueued
  BY <1>1, <1>5 DEF ReadQueued, ReadExecuted, ReadStillQueued, TypeOK, ReceiptStates, Reads
<1> QED
  BY <1>1, <1>2, <1>3, <1>4, <1>5 DEF Read

LEMMA TypeStep ==
  ASSUME TypeOK, DestInv', [Next]_vars
  PROVE  TypeOK'
<1> USE DEF TypeOK, DestInv, ReceiptStates, rigidVars, clientVars
<1>1. ASSUME NEW t \in Transceivers, VoteFor(t)
      PROVE  ready' \in BOOLEAN
  BY <1>1 DEF VoteFor
<1>2. ASSUME NEW t \in Transceivers, Relay(t)
      PROVE  TypeOK'
  BY <1>1, <1>2 DEF Relay
<1>3. Execute \/ CompleteQueued \/ QueueOver \/ Administer \/ Sign \/ Report => TypeOK'
  BY DEF Execute, CompleteQueued, QueueOver, Administer, Sign, Report, destVars
<1>4. Initiate \/ Resume => TypeOK'
  BY RouteAssumption DEF Initiate, Resume, destVars
<1>5. Track \/ ReadThrows => TypeOK'
  BY DEF Track, ReadThrows, ReadAfterVaa, destVars
<1>6. Read => TypeOK'
  BY ReadTypes DEF Reads
<1>7. Complete => TypeOK'
  BY <1>1, RouteAssumption DEF Complete
<1>8. Finalize => TypeOK'
  BY DEF Finalize
<1>9. UNCHANGED vars => TypeOK'
  BY DEF vars, destVars
<1> QED
  BY <1>2, <1>3, <1>4, <1>5, <1>6, <1>7, <1>8, <1>9 DEF Next, ClientNext

(* The receipt and the client keep their types, and track asks about a next transceiver
   only while there is one that is not known to have attested (types.ts:828-899). *)
THEOREM RouteTypes == Spec => []TypeOK
<1>1. Init => DestInv /\ TypeOK
  BY InitDest DEF Init, TypeOK, DestInv, ReceiptStates
<1>2. (DestInv /\ TypeOK) /\ [Next]_vars => (DestInv /\ TypeOK)'
  BY DestStep, TypeStep DEF DestGrows
<1> QED
  BY <1>1, <1>2, PTL DEF Spec

================================================================================
