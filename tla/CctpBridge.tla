----------------------------- MODULE CctpBridge -----------------------------
(***************************************************************************)
(* How USDC reaches a market's chain from another one (cctp.rs): a burn on *)
(* Source, Circle's attestation of its message, the mint at the            *)
(* destination.  The module keeps no state of its own: what outlives a     *)
(* crash is on the two chains, and what the caller remembers is volatile.  *)
(*                                                                         *)
(*   sent, mixed      the messages Source emitted, in chain order, and the *)
(*                    transactions that also emit one that is no burn      *)
(*   confirmed, final how many of them Source has confirmed and finalized  *)
(*   signed           the messages that Circle has signed                  *)
(*   mints            what the destinations minted, in order               *)
(*   known, held,     the caller's memory: burns to finish, messages ready *)
(*   clear            to mint, those whose nonce it has read as unused     *)
(*   done             the arrivals that the caller has counted             *)
(*                                                                         *)
(* Source, Circle and the other relayers are external.  The caller is the  *)
(* treasury that cctp/DESIGN.md names: it follows the three steps of the   *)
(* module's documentation and recovers with burns_by and nonce_used.       *)
(***************************************************************************)
EXTENDS Integers, Sequences, TLAPS

\* CctpChain: the four chains there are.  A domain belongs to one chain of a
\* network, the contracts to one network.
CctpChain ==
    [CCTP_ARBITRUM         |-> [domain |-> 3, contracts |-> "mainnet"],
     CCTP_BASE             |-> [domain |-> 6, contracts |-> "mainnet"],
     CCTP_ARBITRUM_SEPOLIA |-> [domain |-> 3, contracts |-> "testnet"],
     CCTP_BASE_SEPOLIA     |-> [domain |-> 6, contracts |-> "testnet"]]

CONSTANTS
    Depositors, Me,     \* who burns, and the caller
    Recipients, Amounts,
    Source,             \* the chain that burns
    Statuses,           \* external: the HTTP statuses of Iris, 0 for none
    MaxMessages         \* bound of the model: burns on Source

ASSUME CctpAssumption ==
    /\ Source \in DOMAIN CctpChain
    /\ Amounts \subseteq Nat \ {0} /\ Statuses \subseteq Nat
    /\ MaxMessages \in Nat

\* External: the chains that Source's messenger knows, and the one of them
\* that a domain names.
Destinations ==
    {c \in DOMAIN CctpChain :
        c # Source /\ CctpChain[c].contracts = CctpChain[Source].contracts}
ChainOf(domain) == CHOOSE c \in Destinations : CctpChain[c].domain = domain

VARIABLES sent, mixed, confirmed, final, signed, mints, known, held, clear, done

sourceVars == <<sent, mixed, confirmed, final>>
callerVars == <<known, held, clear>>
vars == <<sourceVars, signed, mints, callerVars, done>>

-----------------------------------------------------------------------------
(* A burn, from the order to the message that Circle signs.                *)

\* Finality::threshold.
Threshold(finality) == IF finality = "Fast" THEN 1000 ELSE 2000

\* Burn::standard, and a Burn at Fast finality that caps Circle's fee.
Standard(amount, destination, recipient) ==
    [amount |-> amount, destination |-> destination, recipient |-> recipient,
     finality |-> "Standard", max_fee |-> 0]
Burns ==
    {Standard(a, d, r) : a \in Amounts, d \in Destinations, r \in Recipients}
    \cup UNION {[amount : {a}, destination : Destinations,
                 recipient : Recipients, finality : {"Fast"},
                 max_fee : 0..a - 1] : a \in Amounts}

\* Burn::calldata: no destination caller is named, so anyone may mint.
Anyone == "anyone"
Calldata(burn) ==
    [destination_domain |-> CctpChain[burn.destination].domain,
     mint_recipient |-> burn.recipient, amount |-> burn.amount,
     destination_caller |-> Anyone, max_fee |-> burn.max_fee,
     min_finality |-> Threshold(burn.finality)]

\* External: the message of burn n, with the fee that Circle executes.
Message(n, fee) ==
    LET call == Calldata(sent[n].burn) IN
    [nonce |-> n, fee_executed |-> fee,
     destination_domain |-> call.destination_domain,
     destination_caller |-> call.destination_caller,
     mint_recipient |-> call.mint_recipient,
     amount |-> call.amount, max_fee |-> call.max_fee]

\* External: where MessageV2 and BurnMessageV2 lay those fields.
Layout ==
    [destination_domain |-> <<8, 12>>, nonce |-> <<12, 44>>,
     destination_caller |-> <<108, 140>>, mint_recipient |-> <<184, 216>>,
     amount |-> <<216, 248>>, max_fee |-> <<280, 312>>,
     fee_executed |-> <<312, 344>>]

\* The bytes from..to of a message: the low end of the field that ends there,
\* as an address is of its word.
Read(m, from, to) ==
    m[CHOOSE f \in DOMAIN Layout : Layout[f][1] <= from /\ Layout[f][2] = to]

\* Attested's readings.
Nonce(m) == Read(m, 12, 44)
DestinationDomain(m) == Read(m, 8, 12)
Recipient(m) == Read(m, 196, 216)
Amount(m) == Read(m, 216, 248)
FeeExecuted_MaxFee(m) == Read(m, 280, 312)
FeeExecuted(m) == Read(m, 312, 344)

\* Attested::new: a message is ready to mint only as long as a burn's.
BurnMessageLen == 376
IsBurnMessage(length) == length >= BurnMessageLen

\* What the caller counts as arrived once a is minted.
Arrival(m) ==
    [nonce |-> Nonce(m), chain |-> ChainOf(DestinationDomain(m)),
     to |-> Recipient(m), amount |-> Amount(m) - FeeExecuted(m)]

-----------------------------------------------------------------------------
(* Source, Circle and the destinations.                                    *)

Init ==
    /\ sent = <<>> /\ mixed = {} /\ confirmed = 0 /\ final = 0
    /\ signed = {} /\ mints = <<>>
    /\ known = {} /\ held = {} /\ clear = {} /\ done = {}

\* Source's transactions by hash, numbered as they are mined.
Hashes == 1..MaxMessages
NextHash == IF sent = <<>> THEN 1 ELSE sent[Len(sent)].tx + 1

\* A transaction that burns once or, by a contract, twice; it may emit another
\* message as well, shorter than a burn's.  A caller that does not crash with
\* it keeps the hash of its own.
Deposit(who, batch, other, crashed) ==
    /\ Len(sent) + Len(batch) <= MaxMessages
    /\ crashed => who = Me
    /\ sent' = sent \o [i \in DOMAIN batch |->
                     [tx |-> NextHash, depositor |-> who, burn |-> batch[i]]]
    /\ mixed' = IF other THEN mixed \cup {NextHash} ELSE mixed
    /\ known' = IF who = Me /\ ~crashed THEN known \cup {NextHash} ELSE known
    /\ UNCHANGED <<confirmed, final, signed, mints, held, clear, done>>

\* Source's head and its finality advance over the messages.
Confirm ==
    /\ confirmed < Len(sent) /\ confirmed' = confirmed + 1
    /\ UNCHANGED <<sent, mixed, final, signed, mints, callerVars, done>>

Finalize ==
    /\ final < confirmed /\ final' = final + 1
    /\ UNCHANGED <<sent, mixed, confirmed, signed, mints, callerVars, done>>

LevelOf(n) == IF n <= final THEN 2000 ELSE IF n <= confirmed THEN 1000 ELSE 0

\* Circle signs a burn that is as final as it asks for, for no more than its
\* cap, and for nothing at hard finality.
Sign(n) ==
    /\ n \in DOMAIN sent /\ \A m \in signed : m.nonce # n
    /\ LET call == Calldata(sent[n].burn) IN
        /\ LevelOf(n) >= call.min_finality
        /\ \E fee \in 0..call.max_fee :
            /\ call.min_finality >= 2000 => fee = 0
            /\ signed' = signed \cup {Message(n, fee)}
    /\ UNCHANGED <<sourceVars, mints, callerVars, done>>

\* receiveMessage at the destination: a signed message, by a caller that it
\* allows, once.
Receives(m, who) ==
    /\ m \in signed /\ m.destination_caller \in {Anyone, who}
    /\ \A i \in DOMAIN mints : mints[i].nonce # m.nonce
Minted(m) ==
    [nonce |-> m.nonce, chain |-> ChainOf(m.destination_domain),
     to |-> m.mint_recipient, amount |-> m.amount - m.fee_executed]

\* Somebody else mints it first.
Relay(m, who) ==
    /\ Receives(m, who) /\ mints' = Append(mints, Minted(m))
    /\ UNCHANGED <<sourceVars, signed, callerVars, done>>

-----------------------------------------------------------------------------
(* The module's reads, and the caller between them.                        *)

BurnsBy_OpenEnd(who, from, to) ==
    {sent[i].tx : i \in {j \in from..to - 1 : sent[j].depositor = who}}
\* CctpChain::burns_by: the transactions of a range that burned for who.
BurnsBy(who, from, to) ==
    {sent[i].tx : i \in {j \in from..to : sent[j].depositor = who}}

\* CctpChain::nonce_used.
NonceUsed(chain, nonce) ==
    \E i \in DOMAIN mints : mints[i].chain = chain /\ mints[i].nonce = nonce

\* IrisError::is_transient.
IsTransient(error) ==
    \/ error.kind = "Request"
    \/ error.kind = "Status" /\ (error.status = 429 \/ error.status >= 500)

\* The rows of a transaction as Iris has them: each burn's, and the other
\* message's, which it may have signed too.
Rows(h, other) ==
    {[complete |-> TRUE, length |-> BurnMessageLen, message |-> m] :
        m \in {s \in signed : sent[s.nonce].tx = h}}
    \cup {[complete |-> FALSE, length |-> 0, message |-> n] :
            n \in {i \in DOMAIN sent : /\ sent[i].tx = h
                                       /\ \A s \in signed : s.nonce # i}}
    \cup IF h \notin mixed THEN {}
         ELSE {[complete |-> other, length |-> 148, message |-> h]}

\* parse_messages and parse_message: 404 is an empty list, one message that
\* does not parse is the whole answer's error, the rest keep their status.
Err(kind, status) == [ok |-> FALSE, kind |-> kind, status |-> status]
ParseMessages(status, rows) ==
    IF status = 404 THEN [ok |-> TRUE, messages |-> {}, pending |-> TRUE]
    ELSE IF status # 200 THEN Err("Status", status)
    ELSE IF \E r \in rows : r.complete /\ ~IsBurnMessage(r.length)
         THEN Err("Malformed", status)
    ELSE [ok |-> TRUE,
          messages |-> {r.message : r \in {s \in rows : s.complete}},
          pending |-> \E r \in rows : ~r.complete]

\* IrisClient::attestations.  A request may be lost or run over its timeout (0),
\* find Iris failing, or find a transaction that Iris does not list yet (404).
Attestations(h, status, other) ==
    IF status = 0 THEN Err("Request", 0)
    ELSE ParseMessages(status, Rows(h, other))

\* The caller asks for a burn: what is signed is ready to mint, a burn is over
\* once all of it is, an error that stays drops it.
Ask(h, status, other) ==
    /\ h \in known
    /\ LET answer == Attestations(h, status, other) IN
        IF answer.ok
        THEN /\ held' = held \cup answer.messages
             /\ known' = IF answer.pending THEN known ELSE known \ {h}
        ELSE /\ known' = IF IsTransient(answer) THEN known ELSE known \ {h}
             /\ held' = held
    /\ UNCHANGED <<sourceVars, signed, mints, clear, done>>

\* A caller that lost track of its burns reads them back.
Recover ==
    /\ ~(BurnsBy(Me, 1, Len(sent)) \subseteq known)
    /\ known' = known \cup BurnsBy(Me, 1, Len(sent))
    /\ UNCHANGED <<sourceVars, signed, mints, held, clear, done>>

\* It reads nonce_used before it sends.
Check(m) ==
    /\ m \in held \ clear
    /\ IF NonceUsed(ChainOf(DestinationDomain(m)), Nonce(m))
       THEN /\ done' = done \cup {Arrival(m)} /\ held' = held \ {m}
            /\ clear' = clear
       ELSE /\ clear' = clear \cup {m} /\ UNCHANGED <<held, done>>
    /\ UNCHANGED <<sourceVars, signed, mints, known>>

\* It sends receive_calldata: the receipt may be lost, and a mint it did not
\* send reverts its own; either way it reads the nonce again.
Submit(m) ==
    /\ m \in clear
    /\ clear' = clear \ {m}
    /\ IF Receives(m, Me)
       THEN /\ mints' = Append(mints, Minted(m))
            /\ \/ done' = done \cup {Arrival(m)} /\ held' = held \ {m}
               \/ UNCHANGED <<held, done>>
       ELSE UNCHANGED <<mints, held, done>>
    /\ UNCHANGED <<sourceVars, signed, known>>

\* The caller restarts without its memory.
Crash ==
    /\ callerVars # <<{}, {}, {}>>
    /\ known' = {} /\ held' = {} /\ clear' = {}
    /\ UNCHANGED <<sourceVars, signed, mints, done>>

Next ==
    \/ \E who \in Depositors, other, crashed \in BOOLEAN, one, two \in Burns :
        \/ Deposit(who, <<one>>, other, crashed)
        \/ Deposit(who, <<one, two>>, other, crashed)
    \/ Confirm \/ Finalize
    \/ \E n \in DOMAIN sent : Sign(n)
    \/ \E m \in signed, who \in Depositors \ {Me} : Relay(m, who)
    \/ \E h \in known, status \in Statuses, other \in BOOLEAN :
        Ask(h, status, other)
    \/ Recover
    \/ \E m \in held : Check(m) \/ Submit(m)
    \/ Crash

Spec == Init /\ [][Next]_vars

\* Source goes on and Circle signs; the caller keeps asking, and a request
\* that is made again and again is answered at last.
FairSpec ==
    /\ Spec
    /\ WF_vars(Confirm) /\ WF_vars(Finalize) /\ WF_vars(Recover)
    /\ \A h \in Hashes : SF_vars(Ask(h, 200, FALSE))
    /\ \A n \in 1..MaxMessages :
        /\ WF_vars(Sign(n))
        /\ SF_vars(\E m \in held : m.nonce = n /\ Check(m))
        /\ SF_vars(\E m \in held : m.nonce = n /\ Submit(m))

-----------------------------------------------------------------------------

\* A burn is minted at most once, on the chain and to the recipient it was
\* ordered for, for its amount less a fee within its cap, and in full at
\* Standard finality; and what the caller has counted as arrived is a mint
\* just so, whoever sent it and whatever the caller forgot (Burn::calldata,
\* Attested, nonce_used).
ArrivalsAreTrue ==
    /\ \A i, j \in DOMAIN mints : mints[i].nonce = mints[j].nonce => i = j
    /\ \A i \in DOMAIN mints :
        /\ mints[i].nonce \in DOMAIN sent
        /\ LET burn == sent[mints[i].nonce].burn IN
            /\ mints[i].chain = burn.destination /\ mints[i].to = burn.recipient
            /\ burn.amount - burn.max_fee <= mints[i].amount
            /\ mints[i].amount <= burn.amount
            /\ burn.finality = "Standard" => mints[i].amount = burn.amount
    /\ \A a \in done : \E i \in DOMAIN mints : mints[i] = a

\* However often the caller crashes, its request fails or its receipt is lost,
\* every burn of its own is counted as arrived at last - unless its
\* transaction also emits a message shorter than a burn's, which makes the
\* answer about all of them malformed (burns_by, parse_messages, nonce_used).
EveryBurnArrives ==
    \A n \in 1..MaxMessages :
        (/\ n \in DOMAIN sent /\ sent[n].depositor = Me
         /\ sent[n].tx \notin mixed) ~> \E a \in done : a.nonce = n

-----------------------------------------------------------------------------
(***************************************************************************)
(* Proof that arrivals are true, for every set of burns, whatever is lost  *)
(* and whoever mints.  Each mint is of one signed message and each signed  *)
(* message is of one burn: a nonce read as used is then this very mint.    *)
(***************************************************************************)
Entry == [tx : Nat, depositor : Depositors, burn : Burns]
Mint == [nonce : Nat, chain : Destinations, to : Recipients, amount : Int]

\* A message is of a burn, with a fee that Circle may execute.
OfABurn(m) ==
    /\ m.nonce \in DOMAIN sent
    /\ LET call == Calldata(sent[m.nonce].burn) IN
        \E fee \in 0..call.max_fee :
            m = Message(m.nonce, fee) /\ (call.min_finality >= 2000 => fee = 0)

SignedOnce ==
    /\ \A m \in signed : OfABurn(m)
    /\ \A m1, m2 \in signed : m1.nonce = m2.nonce => m1 = m2

MintedOnce ==
    /\ \A i \in DOMAIN mints : \E m \in signed : mints[i] = Minted(m)
    /\ \A i, j \in DOMAIN mints : mints[i].nonce = mints[j].nonce => i = j

CallerOK ==
    /\ held \subseteq signed /\ clear \subseteq held
    /\ \A a \in done : \E i \in DOMAIN mints : mints[i] = a

IInv == /\ sent \in Seq(Entry) /\ mints \in Seq(Mint)
        /\ SignedOnce /\ MintedOnce /\ CallerOK

LEMMA BurnType ==
    ASSUME NEW b \in Burns
    PROVE  /\ b.amount \in Nat /\ b.destination \in Destinations
           /\ b.recipient \in Recipients /\ b.max_fee \in 0..b.amount
           /\ b.finality \in {"Standard", "Fast"}
           /\ b.finality = "Standard" => Threshold(b.finality) = 2000
BY CctpAssumption DEF Burns, Standard, Threshold

\* A domain names one chain of a network.
LEMMA DomainsAreDistinct ==
    ASSUME NEW c \in Destinations
    PROVE  ChainOf(CctpChain[c].domain) = c
<1>1. \A d \in Destinations : CctpChain[d].domain = CctpChain[c].domain => d = c
  BY CctpAssumption DEF Destinations, CctpChain
<1> QED
  BY <1>1 DEF ChainOf

\* Attested reads the fields that Circle laid, and no others.
LEMMA ReadsAsLaid ==
    ASSUME NEW m
    PROVE  /\ Nonce(m) = m.nonce /\ DestinationDomain(m) = m.destination_domain
           /\ Recipient(m) = m.mint_recipient /\ Amount(m) = m.amount
           /\ FeeExecuted(m) = m.fee_executed
<1> DEFINE At(from, to) == {f \in DOMAIN Layout : Layout[f][1] <= from /\ Layout[f][2] = to}
<1>1. /\ At(12, 44) = {"nonce"} /\ At(8, 12) = {"destination_domain"}
      /\ At(196, 216) = {"mint_recipient"} /\ At(216, 248) = {"amount"}
      /\ At(312, 344) = {"fee_executed"}
  BY DEF Layout
<1>2. \A from, to, g :
        At(from, to) = {g} => Read(m, from, to) = m[g]
  BY DEF Read
<1> HIDE DEF At
<1>3. Read(m, 12, 44) = m.nonce
  BY <1>1, <1>2
<1>4. Read(m, 8, 12) = m.destination_domain
  BY <1>1, <1>2
<1>5. Read(m, 196, 216) = m.mint_recipient
  BY <1>1, <1>2
<1>6. Read(m, 216, 248) = m.amount
  BY <1>1, <1>2
<1>7. Read(m, 312, 344) = m.fee_executed
  BY <1>1, <1>2
<1> QED
  BY <1>3, <1>4, <1>5, <1>6, <1>7 DEF Nonce, DestinationDomain, Recipient, Amount, FeeExecuted

LEMMA ArrivalIsTheMint == ASSUME NEW m PROVE Arrival(m) = Minted(m)
BY ReadsAsLaid DEF Arrival, Minted

\* What the mint of a signed message is.
LEMMA MintIs ==
    ASSUME IInv, NEW m \in signed
    PROVE  /\ Minted(m) \in Mint /\ Minted(m).nonce = m.nonce
           /\ m.nonce \in DOMAIN sent /\ sent[m.nonce].burn \in Burns
           /\ LET burn == sent[m.nonce].burn IN
                /\ Minted(m).chain = burn.destination
                /\ Minted(m).to = burn.recipient
                /\ burn.amount - burn.max_fee <= Minted(m).amount
                /\ Minted(m).amount <= burn.amount
                /\ burn.finality = "Standard" => Minted(m).amount = burn.amount
<1> DEFINE b == sent[m.nonce].burn
<1>1. m.nonce \in DOMAIN sent /\ OfABurn(m)
  BY DEF IInv, SignedOnce, OfABurn
<1>2. b \in Burns /\ m.nonce \in Nat
  <2>1. sent \in Seq(Entry) /\ m.nonce \in 1..Len(sent)
    BY <1>1 DEF IInv
  <2>2. sent[m.nonce] \in Entry
    BY <2>1
  <2> QED
    BY <2>1, <2>2 DEF Entry
<1>3. PICK fee \in 0..b.max_fee :
        /\ m = Message(m.nonce, fee)
        /\ Threshold(b.finality) >= 2000 => fee = 0
  BY <1>1 DEF OfABurn, Calldata
<1>4. /\ m.destination_domain = CctpChain[b.destination].domain
      /\ m.mint_recipient = b.recipient /\ m.amount = b.amount
      /\ m.fee_executed = fee
  BY <1>3 DEF Message, Calldata
<1> HIDE DEF b
<1>5. /\ b.amount \in Nat /\ b.destination \in Destinations
      /\ b.recipient \in Recipients /\ b.max_fee \in 0..b.amount
      /\ b.finality = "Standard" => Threshold(b.finality) = 2000
  BY <1>2, BurnType
<1>6. Minted(m) = [nonce |-> m.nonce, chain |-> b.destination,
                   to |-> b.recipient, amount |-> b.amount - fee]
  BY <1>4, <1>5, DomainsAreDistinct DEF Minted
<1>7. fee \in Nat /\ fee <= b.max_fee /\ b.max_fee \in Nat
  BY <1>3, <1>5
<1>8. /\ Minted(m) \in Mint /\ Minted(m).nonce = m.nonce
      /\ Minted(m).chain = b.destination /\ Minted(m).to = b.recipient
      /\ b.amount - b.max_fee <= Minted(m).amount
      /\ Minted(m).amount <= b.amount
  BY <1>2, <1>5, <1>6, <1>7 DEF Mint
<1>9. b.finality = "Standard" => Minted(m).amount = b.amount
  BY <1>3, <1>5, <1>6
<1> QED
  BY <1>1, <1>2, <1>8, <1>9 DEF b

LEMMA IInvIsTrue == IInv => ArrivalsAreTrue
<1> SUFFICES ASSUME IInv PROVE ArrivalsAreTrue
  OBVIOUS
<1>1. ASSUME NEW i \in DOMAIN mints
      PROVE  /\ mints[i].nonce \in DOMAIN sent
             /\ LET burn == sent[mints[i].nonce].burn IN
                /\ mints[i].chain = burn.destination /\ mints[i].to = burn.recipient
                /\ burn.amount - burn.max_fee <= mints[i].amount
                /\ mints[i].amount <= burn.amount
                /\ burn.finality = "Standard" => mints[i].amount = burn.amount
  <2>1. PICK m \in signed : mints[i] = Minted(m)
    BY <1>1 DEF IInv, MintedOnce
  <2> QED
    BY <2>1, MintIs
<1> QED
  BY <1>1 DEF ArrivalsAreTrue, IInv, MintedOnce, CallerOK

LEMMA BridgeStarts == Init => IInv
BY DEF Init, IInv, SignedOnce, MintedOnce, CallerOK

\* A mint of a message that the destination takes is the only one of it.
LEMMA MintKeeps ==
    ASSUME IInv, NEW m, NEW who, Receives(m, who), mints' = Append(mints, Minted(m)),
           UNCHANGED <<sent, signed>>
    PROVE  /\ mints' \in Seq(Mint) /\ MintedOnce'
           /\ \A i \in DOMAIN mints : i \in DOMAIN mints' /\ mints'[i] = mints[i]
           /\ \E i \in DOMAIN mints' : mints'[i] = Minted(m)
<1> DEFINE n == Len(mints) + 1
<1>1. m \in signed /\ \A i \in DOMAIN mints : mints[i].nonce # m.nonce
  BY DEF Receives
<1>2. Minted(m) \in Mint /\ Minted(m).nonce = m.nonce
  BY <1>1, MintIs
<1>3. mints \in Seq(Mint)
  BY DEF IInv
<1>4. /\ mints' \in Seq(Mint) /\ DOMAIN mints' = DOMAIN mints \cup {n}
      /\ mints'[n] = Minted(m) /\ \A i \in DOMAIN mints : mints'[i] = mints[i]
  BY <1>2, <1>3
<1>5. \A d \in signed' : Minted(d)' = Minted(d)
  BY DEF Minted
<1>6. MintedOnce'
  <2> HIDE DEF n
  <2>1. \A i \in DOMAIN mints' : \E d \in signed' : mints'[i] = Minted(d)'
    BY <1>1, <1>4, <1>5 DEF IInv, MintedOnce
  <2>2. \A i, j \in DOMAIN mints' : mints'[i].nonce = mints'[j].nonce => i = j
    BY <1>1, <1>2, <1>4 DEF IInv, MintedOnce
  <2> QED
    BY <2>1, <2>2 DEF MintedOnce, Minted
<1> QED
  BY <1>4, <1>6

\* What Iris answers is signed.
LEMMA AnswersAreSigned ==
    ASSUME NEW h, NEW status, NEW other, Attestations(h, status, other).ok
    PROVE  Attestations(h, status, other).messages \subseteq signed
<1> DEFINE rows == Rows(h, other)
<1>1. \A r \in rows : r.complete /\ IsBurnMessage(r.length) => r.message \in signed
  BY DEF Rows, IsBurnMessage, BurnMessageLen
<1> HIDE DEF rows
<1>2. CASE status = 404
  BY <1>2 DEF Attestations, ParseMessages
<1>3. CASE status # 404
  BY <1>1, <1>3 DEF Attestations, ParseMessages, Err, rows
<1> QED
  BY <1>2, <1>3

\* More burns leave those before them, and their messages, as they are.
LEMMA DepositKeeps ==
    ASSUME IInv, NEW who \in Depositors, NEW batch \in Seq(Burns),
           NEW other, NEW crashed, Deposit(who, batch, other, crashed)
    PROVE  IInv'
<1>1. sent \in Seq(Entry) /\ signed' = signed /\ mints' = mints
  BY DEF IInv, Deposit
<1>2. NextHash \in Nat
  <2>1. CASE sent = <<>>
    BY <2>1 DEF NextHash
  <2>2. CASE sent # <<>>
    <3>1. sent[Len(sent)] \in Entry
      BY <1>1, <2>2
    <3> QED
      BY <2>2, <3>1 DEF NextHash, Entry
  <2> QED
    BY <2>1, <2>2
<1> DEFINE more == [i \in DOMAIN batch |->
                        [tx |-> NextHash, depositor |-> who, burn |-> batch[i]]]
<1>3. more \in Seq(Entry)
  <2>1. DOMAIN batch = 1..Len(batch) /\ Len(batch) \in Nat
    BY DEF Entry
  <2>2. \A i \in DOMAIN batch : more[i] \in Entry
    BY <1>2 DEF Entry
  <2> QED
    BY <2>1, <2>2
<1>4. sent' = sent \o more
  BY DEF Deposit
<1> HIDE DEF more
<1>5. sent' \in Seq(Entry) /\ \A n \in DOMAIN sent : n \in DOMAIN sent' /\ sent'[n] = sent[n]
  BY <1>1, <1>3, <1>4
<1>6. SignedOnce'
  BY <1>1, <1>5 DEF IInv, SignedOnce, OfABurn, Message
<1> QED
  BY <1>1, <1>5, <1>6 DEF IInv, MintedOnce, CallerOK, Minted, Deposit

LEMMA SignKeeps == ASSUME IInv, NEW n, Sign(n) PROVE IInv'
<1>1. PICK fee \in 0..Calldata(sent[n].burn).max_fee :
        /\ Calldata(sent[n].burn).min_finality >= 2000 => fee = 0
        /\ signed' = signed \cup {Message(n, fee)}
  BY DEF Sign
<1>2. Message(n, fee).nonce = n
  BY DEF Message
<1>3. UNCHANGED <<sent, mints, held, clear, done>>
  BY DEF Sign, sourceVars, callerVars
<1>4. \A m : OfABurn(m)' <=> OfABurn(m)
  BY <1>3 DEF OfABurn, Message
<1>5. OfABurn(Message(n, fee))
  BY <1>1, <1>2 DEF OfABurn, Sign
<1>6. \A m \in signed : m.nonce # n
  BY DEF Sign
<1>7. SignedOnce'
  BY <1>1, <1>2, <1>4, <1>5, <1>6 DEF IInv, SignedOnce
<1>8. MintedOnce'
  BY <1>1, <1>3 DEF IInv, MintedOnce, Minted
<1> QED
  BY <1>1, <1>3, <1>7, <1>8 DEF IInv, CallerOK

LEMMA AskKeeps == ASSUME IInv, NEW h, NEW status, NEW other, Ask(h, status, other) PROVE IInv'
<1>1. UNCHANGED <<sent, signed, mints, clear, done>>
  BY DEF Ask, sourceVars
<1>2. held' \subseteq signed /\ held \subseteq held'
  BY AnswersAreSigned DEF Ask, IInv, CallerOK
<1> QED
  BY <1>1, <1>2 DEF IInv, SignedOnce, OfABurn, Message, MintedOnce, Minted, CallerOK

\* A nonce read as used is the mint of the message asked about.
LEMMA CheckKeeps == ASSUME IInv, NEW m, Check(m) PROVE IInv'
<1>1. UNCHANGED <<sent, signed, mints>>
  BY DEF Check, sourceVars
<1>2. m \in signed
  BY DEF Check, IInv, CallerOK
<1>3. CASE NonceUsed(ChainOf(DestinationDomain(m)), Nonce(m))
  <2>1. PICK i \in DOMAIN mints : mints[i].nonce = m.nonce
    BY <1>3, ReadsAsLaid DEF NonceUsed
  <2>2. PICK d \in signed : mints[i] = Minted(d)
    BY <2>1 DEF IInv, MintedOnce
  <2>3. d.nonce = m.nonce
    BY <2>1, <2>2 DEF Minted
  <2>4. mints[i] = Arrival(m)
    BY <1>2, <2>2, <2>3, ArrivalIsTheMint DEF IInv, SignedOnce
  <2>5. /\ done' = done \cup {Arrival(m)} /\ held' = held \ {m} /\ clear' = clear
        /\ m \notin clear
    BY <1>3 DEF Check
  <2>6. CallerOK'
    BY <1>1, <2>1, <2>4, <2>5 DEF IInv, CallerOK
  <2> QED
    BY <1>1, <2>6 DEF IInv, SignedOnce, OfABurn, Message, MintedOnce, Minted
<1>4. CASE ~NonceUsed(ChainOf(DestinationDomain(m)), Nonce(m))
  <2>1. clear' = clear \cup {m} /\ held' = held /\ done' = done /\ m \in held
    BY <1>4 DEF Check
  <2>2. CallerOK'
    BY <1>1, <2>1 DEF IInv, CallerOK
  <2> QED
    BY <1>1, <2>2 DEF IInv, SignedOnce, OfABurn, Message, MintedOnce, Minted
<1> QED
  BY <1>3, <1>4

\* A mint that lands is counted, or its receipt is lost; one that reverts is not.
LEMMA SubmitKeeps == ASSUME IInv, NEW m, Submit(m) PROVE IInv'
<1>1. UNCHANGED <<sent, signed>> /\ clear' = clear \ {m}
  BY DEF Submit, sourceVars
<1>2. SignedOnce'
  BY <1>1 DEF IInv, SignedOnce, OfABurn, Message
<1>3. CASE Receives(m, Me)
  <2>1. mints' = Append(mints, Minted(m))
    BY <1>3 DEF Submit
  <2>2. /\ mints' \in Seq(Mint) /\ MintedOnce'
        /\ \A i \in DOMAIN mints : i \in DOMAIN mints' /\ mints'[i] = mints[i]
        /\ \E i \in DOMAIN mints' : mints'[i] = Arrival(m)
    BY <1>1, <1>3, <2>1, MintKeeps, ArrivalIsTheMint
  <2>3. \/ done' = done \cup {Arrival(m)} /\ held' = held \ {m}
        \/ UNCHANGED <<held, done>>
    BY <1>3 DEF Submit
  <2>4. CallerOK'
    BY <1>1, <2>2, <2>3 DEF IInv, CallerOK
  <2> QED
    BY <1>1, <1>2, <2>2, <2>4 DEF IInv
<1>4. CASE ~Receives(m, Me)
  <2>1. UNCHANGED <<mints, held, done>>
    BY <1>4 DEF Submit
  <2> QED
    BY <1>1, <1>2, <2>1 DEF IInv, MintedOnce, Minted, CallerOK
<1> QED
  BY <1>3, <1>4

LEMMA RelayKeeps == ASSUME IInv, NEW m, NEW who, Relay(m, who) PROVE IInv'
<1>1. /\ UNCHANGED <<sent, signed, held, clear, done>>
      /\ Receives(m, who) /\ mints' = Append(mints, Minted(m))
  BY DEF Relay, sourceVars, callerVars
<1>2. /\ mints' \in Seq(Mint) /\ MintedOnce'
      /\ \A i \in DOMAIN mints : i \in DOMAIN mints' /\ mints'[i] = mints[i]
  BY <1>1, MintKeeps
<1> QED
  BY <1>1, <1>2 DEF IInv, SignedOnce, OfABurn, Message, CallerOK

LEMMA BridgeKeeps == IInv /\ [Next]_vars => IInv'
<1> SUFFICES ASSUME IInv, [Next]_vars PROVE IInv'
  OBVIOUS
<1>1. ASSUME UNCHANGED <<sent, signed, mints>>, CallerOK'
      PROVE  IInv'
  BY <1>1 DEF IInv, SignedOnce, OfABurn, Message, MintedOnce, Minted
<1>2. CASE UNCHANGED vars
  <2>1. UNCHANGED <<sent, signed, mints>> /\ CallerOK'
    BY <1>2 DEF vars, sourceVars, callerVars, IInv, CallerOK
  <2> QED
    BY <1>1, <2>1
<1>3. ASSUME NEW who \in Depositors, NEW other \in BOOLEAN, NEW crashed \in BOOLEAN,
             NEW one \in Burns, NEW two \in Burns,
             \/ Deposit(who, <<one>>, other, crashed)
             \/ Deposit(who, <<one, two>>, other, crashed)
      PROVE  IInv'
  <2>1. <<one>> \in Seq(Burns) /\ <<one, two>> \in Seq(Burns)
    OBVIOUS
  <2> QED
    BY <1>3, <2>1, DepositKeeps
<1>4. CASE Confirm \/ Finalize
  <2>1. UNCHANGED <<sent, signed, mints>> /\ CallerOK'
    BY <1>4 DEF Confirm, Finalize, callerVars, IInv, CallerOK
  <2> QED
    BY <1>1, <2>1
<1>5. CASE \E n \in DOMAIN sent : Sign(n)
  BY <1>5, SignKeeps
<1>6. CASE \E m \in signed, who \in Depositors \ {Me} : Relay(m, who)
  BY <1>6, RelayKeeps
<1>7. CASE \E h \in known, status \in Statuses, other \in BOOLEAN : Ask(h, status, other)
  BY <1>7, AskKeeps
<1>8. CASE Recover \/ Crash
  <2>1. UNCHANGED <<sent, signed, mints>> /\ CallerOK'
    BY <1>8 DEF Recover, Crash, sourceVars, IInv, CallerOK
  <2> QED
    BY <1>1, <2>1
<1>9. CASE \E m \in held : Check(m) \/ Submit(m)
  BY <1>9, CheckKeeps, SubmitKeeps
<1> QED
  BY <1>2, <1>3, <1>4, <1>5, <1>6, <1>7, <1>8, <1>9 DEF Next

\* Whatever is burned for whomever, however often the caller forgets, asks and
\* sends again, and whoever mints first, every arrival is the one its burn
\* ordered and happens once (Burn::calldata, Attested, nonce_used).
THEOREM ArrivalsAreAlwaysTrue == Spec => []ArrivalsAreTrue
<1>1. Init => IInv
  BY BridgeStarts
<1>2. IInv /\ [Next]_vars => IInv'
  BY BridgeKeeps
<1>3. IInv => ArrivalsAreTrue
  BY IInvIsTrue
<1> QED
  BY <1>1, <1>2, <1>3, PTL DEF Spec
=============================================================================
