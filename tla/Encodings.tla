------------------------------ MODULE Encodings ------------------------------
(***************************************************************************)
(* How transactions, messages, accounts and requests are decoded from      *)
(* protobuf messages and encoded again (proto-messages, proto-types).      *)
(*                                                                         *)
(* XFrom is the TryFrom of X, RawX the From that goes back. A raw message  *)
(* is a record of its fields, a list a sequence, an absent field None, and *)
(* bytes that are no message of their type Malformed. XFrom returns        *)
(* Malformed for any error and Panic where the code panics.                *)
(***************************************************************************)
EXTENDS Numerals

CONSTANTS
    Denom,              \* valid denominations: numbers, in their text's order
    MaxAddrLen,         \* MAX_ADDR_LEN (255)
    MaxGasWanted,       \* MAX_GAS_WANTED (2^63 - 1)
    BankURLs,           \* type URLs that start with /cosmos.bank
    AddressOf(_)        \* RIPEMD160(SHA256(point))

ASSUME EncodingAssumption ==
    /\ Denom \subseteq Nat
    /\ MaxAddrLen \in Nat
    /\ MaxGasWanted \in Nat \ {0}
    /\ "MsgSend" \in BankURLs

Failed(result) == result \in {Malformed, Panic}

(* What collect makes of a list of results: the first failure, or all. *)
Collected(results) ==
    LET failures == {i \in DOMAIN results : Failed(results[i])}
    IN  IF failures = {} THEN results ELSE results[Min(failures)]

Unwrapped(result) == IF Failed(result) THEN Panic ELSE result

Each(f(_), list) == [i \in DOMAIN list |-> f(list[i])]

(* f applied to an optional field. *)
Optional(f(_), field) == IF field = None THEN None ELSE f(field)

-----------------------------------------------------------------------------
(* Addresses: a text in upper case decodes as its lower case. *)
TryFromBytes(bytes) == IF Len(bytes) > MaxAddrLen THEN Malformed ELSE bytes

FromBech32(text) ==
    IF /\ text # None
       /\ text.data # Malformed
       /\ text.hrp = "cosmos"
       /\ text.variant = "Bech32"
    THEN TryFromBytes(text.data)
    ELSE Malformed

ToBech32(address) ==
    [hrp |-> "cosmos", variant |-> "Bech32", case |-> "lower", data |-> address]

-----------------------------------------------------------------------------
(* Coins. *)
DenomFrom(text) == IF text \in Denom THEN text ELSE Malformed

CoinFrom(raw) ==
    LET denom == DenomFrom(raw.denom)
        amount == ParsedUint(raw.amount)
    IN  IF Malformed \in {denom, amount}
        THEN Malformed
        ELSE [denom |-> denom, amount |-> amount]

RawCoin(coin) == [denom |-> coin.denom, amount |-> Numeral(coin.amount)]

(* Coin::from_str: the digits in front are the amount, the rest the denom. *)
CoinFromStr(text) == CoinFrom([amount |-> text.digits, denom |-> text.rest])

(* A wrong ValidateCoins: equal denominations may follow one another. *)
ValidateCoinsWithDuplicates(coins) ==
    /\ coins # <<>>
    /\ \A i \in DOMAIN coins : coins[i].amount # 0
    /\ \A i \in 2 .. Len(coins) : coins[i - 1].denom <= coins[i].denom

ValidateCoins(coins) ==
    /\ coins # <<>>
    /\ \A i \in DOMAIN coins : coins[i].amount # 0
    /\ \A i \in 2 .. Len(coins) : coins[i - 1].denom < coins[i].denom

NewSendCoins(coins) ==
    IF ~ Failed(coins) /\ ValidateCoins(coins) THEN coins ELSE Malformed

SendCoinsFrom(raws) == NewSendCoins(Collected(Each(CoinFrom, raws)))

RawCoins(coins) == Each(RawCoin, coins)

-----------------------------------------------------------------------------
(* MsgSend, and the messages of a transaction. *)
MsgSendFrom(raw) ==
    LET from == FromBech32(raw.from_address)
        to == FromBech32(raw.to_address)
        amount == SendCoinsFrom(raw.amount)
    IN  IF Failed(from) \/ Failed(to) \/ Failed(amount)
        THEN Malformed
        ELSE [from_address |-> from, to_address |-> to, amount |-> amount]

RawMsgSend(msg) ==
    [from_address |-> ToBech32(msg.from_address),
     to_address |-> ToBech32(msg.to_address),
     amount |-> RawCoins(msg.amount)]

AnyOf(url, value) == [type_url |-> url, value |-> value]
Decoded(f(_), bytes) == IF bytes = Malformed THEN Malformed ELSE f(bytes)

(* bank::Message unwraps the decoding of a MsgSend. *)
BankMessageFrom(any) ==
    IF any.type_url # "MsgSend"
    THEN Malformed
    ELSE Unwrapped(Decoded(MsgSendFrom, any.value))

MessageFrom(any) ==
    IF any.type_url \in BankURLs THEN BankMessageFrom(any) ELSE Malformed

AnyMessage(msg) == AnyOf("MsgSend", RawMsgSend(msg))

-----------------------------------------------------------------------------
(* Public keys: a point is given in its compressed or uncompressed form,   *)
(* and always serialized compressed.                                       *)
PubKeyFrom(raw) == raw.point
RawPubKey(key) == [point |-> key, form |-> "compressed"]
GetAddress(key) == AddressOf(key)

PublicKeyFrom(any) ==
    IF any.type_url = "PubKey" THEN Decoded(PubKeyFrom, any.value) ELSE Malformed

AnyPublicKey(key) == AnyOf("PubKey", RawPubKey(key))

-----------------------------------------------------------------------------
(* Transactions. *)
SignerInfoFrom(raw) ==
    LET key == Optional(PublicKeyFrom, raw.public_key)
    IN  IF Failed(key) THEN Malformed ELSE [raw EXCEPT !.public_key = key]

RawSignerInfo(info) ==
    [info EXCEPT !.public_key = Optional(AnyPublicKey, info.public_key)]

(* A wrong FeeFrom: the amounts of zero are left to SendCoins. *)
FeeFromCoins(raw) ==
    LET payer == Optional(FromBech32, raw.payer)
        amount == SendCoinsFrom(raw.amount)
    IN  IF raw.gas_limit > MaxGasWanted \/ Failed(payer) \/ Failed(amount)
        THEN Malformed
        ELSE [raw EXCEPT !.amount = amount, !.payer = payer]

(* A list of zeros, whatever their denominations, is no fee. *)
FeeFrom(raw) ==
    LET payer == Optional(FromBech32, raw.payer)
        allZero == \A i \in DOMAIN raw.amount : ParsedUint(raw.amount[i].amount) = 0
        amount == IF allZero THEN None ELSE SendCoinsFrom(raw.amount)
    IN  IF raw.gas_limit > MaxGasWanted \/ Failed(payer) \/ Failed(amount)
        THEN Malformed
        ELSE [raw EXCEPT !.amount = amount, !.payer = payer]

(* A wrong RawFee: the payer is left out. *)
RawFeeWithoutPayer(fee) ==
    [fee EXCEPT !.amount = IF fee.amount = None THEN <<>> ELSE RawCoins(fee.amount),
                !.payer = None]

RawFee(fee) ==
    [fee EXCEPT !.amount = IF fee.amount = None THEN <<>> ELSE RawCoins(fee.amount),
                !.payer = Optional(ToBech32, fee.payer)]

TipFrom(raw) ==
    LET tipper == FromBech32(raw.tipper)
        amount == SendCoinsFrom(raw.amount)
    IN  IF Failed(tipper) \/ Failed(amount)
        THEN Malformed
        ELSE [amount |-> amount, tipper |-> tipper]

RawTip(tip) ==
    [amount |-> IF tip.amount = None THEN <<>> ELSE RawCoins(tip.amount),
     tipper |-> ToBech32(tip.tipper)]

AuthInfoFrom(raw) ==
    LET infos == Collected(Each(SignerInfoFrom, raw.signer_infos))
        fee == IF raw.fee = None THEN Malformed ELSE FeeFrom(raw.fee)
        tip == Optional(TipFrom, raw.tip)
    IN  IF Failed(infos) \/ Failed(fee) \/ Failed(tip)
        THEN Malformed
        ELSE [signer_infos |-> infos, fee |-> fee, tip |-> tip]

RawAuthInfo(info) ==
    [signer_infos |-> Each(RawSignerInfo, info.signer_infos),
     fee |-> RawFee(info.fee),
     tip |-> Optional(RawTip, info.tip)]

(* A body fails as its messages do. *)
TxBodyFrom(raw) == [raw EXCEPT !.messages = Collected(Each(MessageFrom, @))]

RawTxBody(body) == [body EXCEPT !.messages = Each(AnyMessage, body.messages)]

(* The body is converted last: a message that panics does so only in an    *)
(* otherwise valid transaction.                                            *)
TxOf(raw, auth, body) ==
    IF \/ raw.body = None
       \/ raw.body.extension_options # <<>>
       \/ Failed(auth)
       \/ Len(raw.signatures) # Len(auth.signer_infos)
    THEN Malformed
    ELSE IF Failed(body.messages) THEN body.messages
    ELSE [body |-> body, auth_info |-> auth, signatures |-> raw.signatures,
          signatures_data |->
            [i \in DOMAIN raw.signatures |->
               [signature |-> raw.signatures[i],
                sequence |-> auth.signer_infos[i].sequence]]]

TxFrom(raw) ==
    TxOf(raw,
         IF raw.auth_info = None THEN Malformed ELSE AuthInfoFrom(raw.auth_info),
         TxBodyFrom(raw.body))

RawTx(tx) ==
    [body |-> RawTxBody(tx.body), auth_info |-> RawAuthInfo(tx.auth_info),
     signatures |-> tx.signatures]

(* What prost makes of two occurrences of a field: lists are concatenated, *)
(* a number or a text is the last one given, messages are merged.          *)
MergedFields(Merge(_, _), a, b) ==
    IF a = None THEN b ELSE IF b = None THEN a ELSE Merge(a, b)

LastGiven(default, a, b) == IF b = default THEN a ELSE b

MergedFee(a, b) ==
    [amount |-> a.amount \o b.amount,
     gas_limit |-> LastGiven(0, a.gas_limit, b.gas_limit),
     payer |-> LastGiven(None, a.payer, b.payer)]

MergedTip(a, b) ==
    [amount |-> a.amount \o b.amount, tipper |-> LastGiven(None, a.tipper, b.tipper)]

MergedAuthInfo(a, b) ==
    [signer_infos |-> a.signer_infos \o b.signer_infos,
     fee |-> MergedFields(MergedFee, a.fee, b.fee),
     tip |-> MergedFields(MergedTip, a.tip, b.tip)]

MergedBody(a, b) ==
    [messages |-> a.messages \o b.messages,
     timeout_height |-> LastGiven(0, a.timeout_height, b.timeout_height),
     extension_options |-> a.extension_options \o b.extension_options]

MergedTx(earlier, last) ==
    [body |-> MergedFields(MergedBody, earlier.body, last.body),
     auth_info |-> MergedFields(MergedAuthInfo, earlier.auth_info, last.auth_info),
     signatures |-> last.signatures]

(* Where each field of a transaction occurs once. *)
NoEarlier == [body |-> None, auth_info |-> None]

(* The bytes of a transaction are decoded twice: last is of the last body  *)
(* and the last auth_info in them and of all signatures, earlier of the    *)
(* occurrences before. Tx, which is executed, merges all; TxRaw, whose     *)
(* bytes signatures are over, keeps the last.                              *)
TxWithRaw(earlier, last) ==
    LET tx == TxFrom(MergedTx(earlier, last))
    IN  IF Failed(tx) THEN tx ELSE [tx |-> tx, raw |-> last]

-----------------------------------------------------------------------------
(* The command line's transfer: the document it signs, and the node's view *)
(* of what a signature is over.                                            *)
SignBytes(raw, number) ==
    [body |-> raw.body, auth_info |-> raw.auth_info, account_number |-> number]

CreateSignedSendTx(from, to, amount, fee, sequence, number, key) ==
    LET coins == NewSendCoins(<<amount>>)
        fees == IF fee = None THEN None ELSE NewSendCoins(<<fee>>)
        body == [messages |-> <<[from_address |-> from, to_address |-> to,
                                 amount |-> coins]>>,
                 timeout_height |-> 0, extension_options |-> <<>>]
        auth == [signer_infos |-> <<[public_key |-> key, sequence |-> sequence]>>,
                 fee |-> [amount |-> fees, gas_limit |-> 1, payer |-> None],
                 tip |-> None]
        unsigned == [body |-> RawTxBody(body), auth_info |-> RawAuthInfo(auth)]
    IN  IF Failed(coins) \/ Failed(fees)
        THEN Malformed
        ELSE [body |-> unsigned.body, auth_info |-> unsigned.auth_info,
              signatures |-> <<[key |-> key, over |-> SignBytes(unsigned, number)]>>]

-----------------------------------------------------------------------------
(* Accounts, as they are stored and answered. *)
BaseAccountFrom(raw) ==
    LET address == FromBech32(raw.address)
        key == Optional(PublicKeyFrom, raw.pub_key)
    IN  IF Failed(address) \/ Failed(key)
        THEN Malformed
        ELSE [raw EXCEPT !.address = address, !.pub_key = key]

RawBaseAccount(account) ==
    [account EXCEPT !.address = ToBech32(@),
                    !.pub_key = Optional(AnyPublicKey, account.pub_key)]

ModuleAccountFrom(raw) ==
    LET base == IF raw.base_account = None THEN Malformed
                ELSE BaseAccountFrom(raw.base_account)
    IN  IF Failed(base) THEN Malformed ELSE [raw EXCEPT !.base_account = base]

RawModuleAccount(account) == [account EXCEPT !.base_account = RawBaseAccount(@)]

AccountFrom(any) ==
    IF any.type_url = "BaseAccount" THEN Decoded(BaseAccountFrom, any.value)
    ELSE IF any.type_url = "ModuleAccount" THEN Decoded(ModuleAccountFrom, any.value)
    ELSE Malformed

AnyAccount(account) ==
    IF "base_account" \in DOMAIN account
    THEN AnyOf("ModuleAccount", RawModuleAccount(account))
    ELSE AnyOf("BaseAccount", RawBaseAccount(account))

-----------------------------------------------------------------------------
(* Requests and responses of the queries. *)
QueryAccountRequestFrom(raw) == FromBech32(raw.address)
RawQueryAccountRequest(address) == [address |-> ToBech32(address)]

QueryAccountResponseFrom(raw) ==
    IF raw.account = None THEN Malformed ELSE AccountFrom(raw.account)
RawQueryAccountResponse(account) == [account |-> AnyAccount(account)]

QueryBalanceRequestFrom(raw) ==
    LET address == FromBech32(raw.address)
        denom == DenomFrom(raw.denom)
    IN  IF Failed(address) \/ Failed(denom)
        THEN Malformed
        ELSE [address |-> address, denom |-> denom]
RawQueryBalanceRequest(query) == [query EXCEPT !.address = ToBech32(@)]

QueryBalanceResponseFrom(raw) ==
    LET balance == Optional(CoinFrom, raw.balance)
    IN  IF Failed(balance) THEN Malformed ELSE [balance |-> balance]
RawQueryBalanceResponse(query) == [balance |-> Optional(RawCoin, query.balance)]

QueryAllBalancesRequestFrom(raw) ==
    LET address == FromBech32(raw.address)
    IN  IF Failed(address) THEN Malformed ELSE [raw EXCEPT !.address = address]
RawQueryAllBalancesRequest(query) == [query EXCEPT !.address = ToBech32(@)]

QueryAllBalancesResponseFrom(raw) == Collected(Each(CoinFrom, raw.balances))
RawQueryAllBalancesResponse(coins) == [balances |-> RawCoins(coins)]
QueryTotalSupplyResponseFrom(raw) == Collected(Each(CoinFrom, raw.supply))
RawQueryTotalSupplyResponse(coins) == [supply |-> RawCoins(coins)]

-----------------------------------------------------------------------------
(* The REST interface's list of transactions: every transaction Tendermint *)
(* found is decoded, or the list fails.                                    *)
ResponsesOf(found, txs) ==
    IF Failed(txs)
    THEN txs
    ELSE [total |-> Len(txs), txs |-> txs,
          tx_responses |-> [i \in DOMAIN found |-> [found[i] EXCEPT !.tx = txs[i]]]]

MapResponses(found) ==
    ResponsesOf(found, Collected([i \in DOMAIN found |-> TxFrom(found[i].tx)]))

-----------------------------------------------------------------------------
(* What SendCoins promise: positive amounts of distinct valid              *)
(* denominations, in order, and at least one.                              *)
AreSendCoins(list) ==
    /\ Len(list) > 0
    /\ \A i \in DOMAIN list : list[i].denom \in Denom /\ list[i].amount \in Uint \ {0}
    /\ \A i, j \in DOMAIN list : i < j => list[i].denom < list[j].denom

(* What run_tx assumes of a transaction it is given: the signatures are    *)
(* one for each signer, with its sequence, and the coins of the messages   *)
(* and of the fee, when there is one, are SendCoins.                       *)
IsTransaction(tx) ==
    /\ Len(tx.signatures) = Len(tx.auth_info.signer_infos)
    /\ \A i \in DOMAIN tx.signatures :
         tx.signatures_data[i] = [signature |-> tx.signatures[i],
                                  sequence |-> tx.auth_info.signer_infos[i].sequence]
    /\ \A i \in DOMAIN tx.body.messages : AreSendCoins(tx.body.messages[i].amount)
    /\ tx.auth_info.fee.amount # None => AreSendCoins(tx.auth_info.fee.amount)

(* Whatever is decoded is a transaction of that kind, or no transaction.   *)
DecodesTransactions(raw) == Failed(TxFrom(raw)) \/ IsTransaction(TxFrom(raw))

(* Whatever raw is decoded as is, encoded and decoded again, the same. A   *)
(* value that a quantifier binds is computed once.                         *)
SurvivesEncoding(From(_), Raw(_), raw) ==
    \A decoded \in {From(raw)} :
        Failed(decoded) \/ \A again \in {Raw(decoded)} : From(again) = decoded

(* What the command line signs to send a coin, for a fee or for none, is   *)
(* refused if either is zero; else a node decodes the signed bytes as that *)
(* transfer: from the key's address, with the account's sequence, the fee  *)
(* asked for, and a signature over the very bytes the node received. It is *)
(* of the bytes the command line makes: nothing checks that other bytes    *)
(* have each field once.                                                   *)
DecodedAsSigned(key, to, coin, fee, sequence, number) ==
    LET from == GetAddress(key)
    IN  \A raw \in {CreateSignedSendTx(from, to, coin, fee, sequence, number, key)} :
          IF coin.amount = 0 \/ (fee # None /\ fee.amount = 0)
          THEN raw = Malformed
          ELSE \A decoded \in {TxWithRaw(NoEarlier, raw)} :
             /\ ~ Failed(decoded)
             /\ decoded.tx.body.messages =
                  <<[from_address |-> from, to_address |-> to, amount |-> <<coin>>]>>
             /\ decoded.tx.auth_info.fee.amount = (IF fee = None THEN None ELSE <<fee>>)
             /\ decoded.tx.auth_info.signer_infos[1].public_key = key
             /\ decoded.tx.signatures_data =
                  <<[sequence |-> sequence,
                     signature |-> [key |-> key, over |-> SignBytes(decoded.raw, number)]]>>
=============================================================================
