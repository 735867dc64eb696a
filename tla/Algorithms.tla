------------------------------ MODULE Algorithms ------------------------------
(***************************************************************************)
(* The pure modules at work: a step gives the code one input, or writes    *)
(* parameters to the params store, and the properties compare what the     *)
(* code computes with what it is on paper. The sets of inputs are          *)
(* constants; the assumptions on them say what the code's types and its    *)
(* decoders of bytes leave possible.                                       *)
(***************************************************************************)
EXTENDS Decimal256, Encodings, MerkleRoot, Params

CONSTANTS
    Decimals, Exponents,    \* decimals, and places and exponents next to them
    BasesAndExponents,      \* what is raised to a power
    DecimalTexts,           \* texts to read, cut at their dots
    RawTxs, RawAccounts,    \* decoded protobuf messages
    AddressTexts, CoinLists,
    Transfers,              \* what the command line is asked to send
    Databases, ByteStrings, Limits, \* databases and prefixes, keys, bounds
    AuthWrites, BankWrites, ConsensusWrites,    \* parameters
    Leaves, LeafLists,      \* what a Merkle root is of
    StoreNames, StoreHashes

-----------------------------------------------------------------------------
(* What protobuf makes of bytes: lists, and records with their fields. *)
IsSeq(list) == list \in Seq(Range(list))

IsRawFee(raw) == {"amount", "payer", "gas_limit"} \subseteq DOMAIN raw /\ IsSeq(raw.amount)

IsRawAuthInfo(raw) ==
    /\ IsSeq(raw.signer_infos)
    /\ \A i \in DOMAIN raw.signer_infos : "public_key" \in DOMAIN raw.signer_infos[i]
    /\ raw.fee # None => IsRawFee(raw.fee)
    /\ raw.tip # None => IsSeq(raw.tip.amount)

IsRawBody(raw) ==
    /\ {"messages", "extension_options"} \subseteq DOMAIN raw
    /\ IsSeq(raw.messages)
    /\ \A i \in DOMAIN raw.messages :
         raw.messages[i].type_url = "MsgSend" /\ raw.messages[i].value # Malformed
           => IsSeq(raw.messages[i].value.amount)

IsRawTransaction(raw) ==
    /\ raw.body # None => IsRawBody(raw.body)
    /\ raw.auth_info # None => IsRawAuthInfo(raw.auth_info)
    /\ IsSeq(raw.signatures)

IsRawBase(raw) == {"address", "pub_key"} \subseteq DOMAIN raw

IsRawAccount(any) ==
    /\ any.type_url = "BaseAccount" /\ any.value # Malformed =>
         IsRawBase(any.value) /\ "base_account" \notin DOMAIN any.value
    /\ any.type_url = "ModuleAccount" /\ any.value # Malformed =>
         /\ "base_account" \in DOMAIN any.value
         /\ any.value.base_account # None => IsRawBase(any.value.base_account)

(* Values of the types that only valid ones are made of. *)
IsAddress(a) == ~ Failed(a) /\ TryFromBytes(a) = a

IsCoin(c) ==
    /\ ~ Failed(c) /\ c = [denom |-> c.denom, amount |-> c.amount]
    /\ c.denom \in Denom /\ c.amount \in Uint

IsTransfer(t) ==
    /\ ~ Failed(t.key) /\ IsAddress(GetAddress(t.key)) /\ IsAddress(t.to)
    /\ IsCoin(t.coin)
    /\ t.fee # None => IsCoin(t.fee)

ASSUME DecimalsAssumption ==
    /\ Decimals \subseteq Uint /\ Exponents \subseteq Nat
    /\ BasesAndExponents \subseteq Uint \X Nat
    /\ \A text \in DecimalTexts : text # <<>> /\ text \in Seq(Seq(Digit))

ASSUME MessagesAssumption ==
    /\ \A raw \in RawTxs : IsRawTransaction(raw)
    /\ \A any \in RawAccounts : IsRawAccount(any)
    /\ \A coins \in CoinLists : IsSeq(coins)
    /\ \A t \in Transfers : IsTransfer(t)

ASSUME KeysAssumption ==
    /\ ByteStrings \subseteq Seq(0 .. MaxByte)
    /\ \A d \in Databases :
         /\ DOMAIN d.db \subseteq Seq(0 .. MaxByte) /\ IsFiniteSet(DOMAIN d.db)
         /\ d.prefix \in Seq(0 .. MaxByte)
    /\ \A end \in Limits :
         /\ end.key \in Seq(0 .. MaxByte)
         /\ end \in {Unbounded, Included(end.key), Excluded(end.key)}

ASSUME WritesAssumption ==
    /\ AuthWrites \subseteq [AuthParams -> Uint]
    /\ BankWrites \subseteq [default_send_enabled : BOOLEAN]
    /\ None \notin ConsensusWrites

ASSUME RootsAssumption ==
    /\ \A leaf \in Leaves : IsSeq(leaf)
    /\ LeafLists \subseteq Seq(Leaves)
    /\ IsFiniteSet(StoreNames)
    /\ StoreNames \subseteq Seq({Byte(b) : b \in 0 .. MaxByte})
VARIABLES
    input,      \* what the code is given
    written     \* the params store, and what was written to it last

vars == <<input, written>>

-----------------------------------------------------------------------------
Idle == [kind |-> "idle"]
Is(kind) == input.kind = kind

DecimalInputs ==
    [kind : {"decimals"}, d : Decimals, e : Decimals, n : Exponents]
PowerInputs == [kind : {"power"}, power : BasesAndExponents]
TextInputs == [kind : {"text"}, text : DecimalTexts]
TxInputs == [kind : {"tx"}, tx : RawTxs]
AccountInputs == [kind : {"account"}, account : RawAccounts]
QueryInputs == [kind : {"query"}, address : AddressTexts, coins : CoinLists]
TransferInputs == [kind : {"transfer"}, transfer : Transfers]
KeyInputs == [kind : {"keys"}, keys : Databases]
LeafInputs == [kind : {"leaves"}, leaves : LeafLists]
Stores == UNION {[names -> StoreHashes] : names \in SUBSET StoreNames}
StoreInputs == [kind : {"stores"}, stores : Stores]

(* The params store of a process: one that ends before its first commit    *)
(* has written nothing.                                                    *)
Unwritten == [store |-> <<>>, auth |-> Panic, bank |-> Panic, consensus |-> None]

(* An input has nothing to do with what is written: one or the other.      *)
Take ==
    /\ input = Idle /\ written = Unwritten
    /\ \/ input' \in DecimalInputs \/ input' \in PowerInputs \/ input' \in TextInputs
       \/ input' \in TxInputs \/ input' \in AccountInputs
       \/ input' \in QueryInputs \/ input' \in TransferInputs
       \/ input' \in KeyInputs
       \/ input' \in LeafInputs \/ input' \in StoreInputs
    /\ UNCHANGED written

Leave == input # Idle /\ input' = Idle /\ UNCHANGED written

WriteAuth(auth) ==
    written' = [written EXCEPT !.store = SetAuthParams(@, auth), !.auth = auth]
WriteBank(bank) ==
    written' = [written EXCEPT !.store = SetBankParams(@, bank), !.bank = bank]
WriteConsensus(consensus) ==
    written' = [written EXCEPT !.store = SetConsensusParams(@, consensus),
                               !.consensus = consensus]

Write ==
    /\ input = Idle /\ written.store # Panic
    /\ \/ \E auth \in AuthWrites : WriteAuth(auth)
       \/ \E bank \in BankWrites : WriteBank(bank)
       \/ \E consensus \in ConsensusWrites : WriteConsensus(consensus)
    /\ UNCHANGED input

Restart == written # Unwritten /\ written' = Unwritten /\ UNCHANGED input

Init == input = Idle /\ written = Unwritten
Next == Take \/ Leave \/ Write \/ Restart
Spec == Init /\ [][Next]_vars

-----------------------------------------------------------------------------
(* The arithmetic of decimal256.rs rounds down and fails exactly when a    *)
(* result does not fit, its roots are off by less than one unit of the     *)
(* precision they could be computed with, and Display, FromStr and the     *)
(* protobuf text give back the number they were given.                     *)
DecimalsAreExact ==
    /\ Is("decimals") =>
         /\ FromAtomicsIsExact(input.d, input.n)
         /\ ArithmeticIsExact(input.d, input.e)
         /\ RootIsExact(input.d)
         /\ TextsAreReadBack(input.d)
    /\ Is("power") => PowerIsExact(input.power[1], input.power[2])
    /\ Is("text") => TextIsExact(input.text)

(* A decoding panics only for a message, whose decoding panics by itself.  *)
OnlyMessagesPanic(raw) ==
    TxFrom(raw) = Panic =>
        \E i \in DOMAIN raw.body.messages :
           /\ raw.body.messages[i].type_url = "MsgSend"
           /\ MessageFrom(raw.body.messages[i]) = Panic

(* The transactions of the REST list are those that were found, each       *)
(* decoded, or there is no list.                                           *)
ListsTransactions(found) ==
    \A list \in {MapResponses(found)} :
        \/ Failed(list)
        \/ /\ list.total = Len(found) /\ Len(list.txs) = Len(found)
           /\ \A i \in DOMAIN found : list.txs[i] = TxFrom(found[i].tx)

(* A coin given in one text is the coin given in two.                      *)
ReadsCoins(raw) ==
    raw.amount # Malformed =>
        CoinFromStr([digits |-> raw.amount, rest |-> raw.denom]) = CoinFrom(raw)

(* Whatever bytes a transaction is decoded from, its coins are positive,   *)
(* of distinct valid denominations in order, its signatures are one for    *)
(* each signer; encoded and decoded again, transactions, accounts,         *)
(* requests and responses are what they were; and only a message panics.   *)
DecodingIsExact ==
    /\ Is("tx") =>
         /\ SurvivesEncoding(TxFrom, RawTx, input.tx)
         /\ DecodesTransactions(input.tx)
         /\ OnlyMessagesPanic(input.tx)
         /\ ListsTransactions(<<[height |-> 1, tx |-> input.tx],
                                [height |-> 2, tx |-> input.tx]>>)
    /\ Is("account") =>
         /\ SurvivesEncoding(AccountFrom, AnyAccount, input.account)
         /\ SurvivesEncoding(QueryAccountResponseFrom, RawQueryAccountResponse,
                             [account |-> input.account])
    /\ Is("query") =>
         /\ SurvivesEncoding(QueryAccountRequestFrom, RawQueryAccountRequest,
                             [address |-> input.address])
         /\ SurvivesEncoding(QueryAllBalancesRequestFrom, RawQueryAllBalancesRequest,
                             [address |-> input.address, pagination |-> None])
         /\ SurvivesEncoding(QueryAllBalancesResponseFrom, RawQueryAllBalancesResponse,
                             [balances |-> input.coins])
         /\ SurvivesEncoding(QueryTotalSupplyResponseFrom, RawQueryTotalSupplyResponse,
                             [supply |-> input.coins])
         /\ \A i \in DOMAIN input.coins :
              /\ SurvivesEncoding(QueryBalanceRequestFrom, RawQueryBalanceRequest,
                                  [address |-> input.address, denom |-> input.coins[i].denom])
              /\ SurvivesEncoding(QueryBalanceResponseFrom, RawQueryBalanceResponse,
                                  [balance |-> input.coins[i]])
              /\ ReadsCoins(input.coins[i])

(* A transfer of a positive amount that the command line signs, with any   *)
(* fee but zero, is decoded by a node as that transfer: from the key's     *)
(* address, with the account's sequence, the fee asked for, and a          *)
(* signature over the very bytes the node received, each field once.       *)
TransfersAreDecodedAsSigned ==
    Is("transfer") =>
        LET t == input.transfer
        IN  DecodedAsSigned(t.key, t.to, t.coin, t.fee, t.sequence, t.number)

(* A get of a prefix store finds what its range yields, and nothing else;  *)
(* one of a prefix database what was put. A prefix within a prefix is a    *)
(* longer prefix.                                                          *)
GetsAgreeWithRanges(db, prefix, k) ==
    LET own == Stripped(InOrder(KeysWith(db, prefix)), prefix)
    IN  /\ PrefixStoreGet(db, prefix, k)
             = IF k \in Range(own) THEN db[prefix \o k] ELSE NoValue
        /\ PrefixLookup(PrefixPut(db, prefix, k, "new"), prefix, k) = "new"
        /\ \A n \in 0 .. Len(prefix) :
             PrefixPrefixIterator(db, SubSeq(prefix, 1, n),
                                  SubSeq(prefix, n + 1, Len(prefix))) = own

(* The nanoseconds of the evidence parameters, or those of its seconds     *)
(* alone, do not fit an i64.                                               *)
Overflows(consensus) ==
    /\ consensus # None /\ consensus.evidence # None
    /\ LET duration == consensus.evidence.max_age_duration
       IN  /\ duration # None
           /\ LET seconds == duration.seconds * NanosPerSecond
              IN  ~ InI64(seconds) \/ ~ InI64(seconds + duration.nanos)

(* The prefixes keep apart what shares a store: ranges over a prefix are   *)
(* exact, also for prefixes of largest bytes; the balances of an address   *)
(* are its own; and after any writes to the subspaces each module's        *)
(* parameters are the ones it wrote last, or a panic before it wrote any.  *)
(* Only a duration that overflows panics.                                  *)
PrefixesKeepApart ==
    /\ Is("keys") =>
         LET db == input.keys.db
             prefix == input.keys.prefix
         IN  /\ PrefixIteratorsAreExact(db, prefix)
             /\ \A start, end \in Limits : PrefixStoresAreExact(db, prefix, start, end)
             /\ \A k \in ByteStrings : GetsAgreeWithRanges(db, prefix, k)
             /\ \A other, denom \in ByteStrings : AddressesAreSeparate(prefix, other, denom)
    /\ written.store = Panic <=> Overflows(written.consensus)
    /\ written.store # Panic =>
         /\ GetAuthParams(written.store) = written.auth
         /\ GetBankParams(written.store) = written.bank

(* The root says which items it is of, how many and in which order, and    *)
(* the application hash which stores there are and what each one's hash is. *)
StoreInfos(hashes) == {[name |-> n, hash |-> hashes[n]] : n \in DOMAIN hashes}
BytesOf(name) == [i \in DOMAIN name |-> name[i][2]]
NamesInOrder ==
    {names \in StoreNames \X StoreNames :
        Precedes(BytesOf(names[1]), BytesOf(names[2]))}

RootsCommit ==
    /\ Is("leaves") =>
         \A other \in LeafLists : RootSaysItems(input.leaves, other)
    /\ Is("stores") =>
         \A other \in Stores :
            HashSaysStores(StoreInfos(input.stores), StoreInfos(other), NamesInOrder)
=============================================================================
