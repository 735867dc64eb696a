---------------------------- MODULE MCAlgorithms ----------------------------
(***************************************************************************)
(* The pure modules on small inputs: every boundary the code tells apart.  *)
(***************************************************************************)
EXTENDS Algorithms

(* Decimals: with two places, and room for the square of one. *)
MCDecimals == {0, 1, 2, 9, 10, 49, 50, 99, 100, 101, 150, 199, 200, 250, 300,
               1000, 2500, 3200, 9999, 10000}
MCExponents == 0 .. 5
LargestBase == <<10000, 10000, 1000, 200, 50>>     \* whose power TLC can compute
MCBasesAndExponents ==
    {p \in MCDecimals \X MCExponents : p[2] = 0 \/ p[1] <= LargestBase[p[2]]}
DecimalParts == {<<>>, <<0>>, <<7>>, <<0, 5>>, <<2, 0>>, <<2, 5>>, <<9, 9>>,
                 <<1, 0, 0>>, <<0, 0, 1>>, <<1, 0, 1>>}
MCDecimalTexts == (SeqOf(DecimalParts, 2) \ {<<>>}) \cup {<<<<1>>, <<2>>, <<3>>>>}

-----------------------------------------------------------------------------
(* Encodings: two addresses, two denominations, a good and a bad key. *)
MCAddressOf(point) == <<point>>
A == <<1>>
B == <<2>>
Bad(text) == {[text EXCEPT !.hrp = "other"], [text EXCEPT !.variant = "Bech32m"],
              [text EXCEPT !.data = Malformed], [text EXCEPT !.data = <<1, 1, 1>>]}
MCAddressTexts ==
    {ToBech32(A), [ToBech32(A) EXCEPT !.case = "upper"], ToBech32(<<>>)}
        \cup Bad(ToBech32(A))

C(denom, numeral) == [denom |-> denom, amount |-> numeral]
MCCoinLists ==
    {<<>>, <<C(1, <<5>>)>>, <<C(1, <<0>>)>>, <<C(1, <<0, 7>>), C(2, <<1>>)>>,
     <<C(1, <<1>>), C(2, <<0>>)>>, <<C(1, <<0>>), C(2, <<1>>)>>,
     <<C(2, <<1>>), C(1, <<1>>)>>, <<C(1, <<1>>), C(1, <<2>>)>>,
     <<C(3, <<0>>)>>, <<C(3, <<1>>)>>, <<C(1, Malformed)>>, <<C(1, <<>>)>>,
     <<C(1, <<1, 0, 0, 0, 1>>)>>}

Send(from, to, amount) ==
    AnyOf("MsgSend", [from_address |-> from, to_address |-> to, amount |-> amount])
Sends ==
    {Send(from, ToBech32(B), amount) : from \in MCAddressTexts, amount \in MCCoinLists}
GoodSend == Send(ToBech32(A), ToBech32(B), <<C(1, <<5>>)>>)
BadMessages == {AnyOf("MsgSend", Malformed), AnyOf("MsgMultiSend", Malformed),
                AnyOf("MsgVote", Malformed)}

Key(point) == AnyOf("PubKey", [point |-> point, form |-> "uncompressed"])
Keys == {None, Key(1), Key(Malformed), AnyOf("PubKey", Malformed), AnyOf("Other", Malformed)}
SignerInfos ==
    {<<>>} \cup {<<[public_key |-> k, sequence |-> 3]>> : k \in Keys}
           \cup {<<[public_key |-> Key(1), sequence |-> 3], [public_key |-> k, sequence |-> 4]>> : k \in Keys}
GoodInfos == <<[public_key |-> Key(1), sequence |-> 3]>>

Body(messages, options) ==
    [messages |-> messages, timeout_height |-> 9, extension_options |-> options]
Bodies ==
    {None, Body(<<>>, <<>>), Body(<<GoodSend>>, <<"option">>)}
      \cup {Body(<<m>>, <<>>) : m \in Sends \cup BadMessages}
      \cup {Body(<<GoodSend, m>>, <<>>) : m \in Sends \cup BadMessages}
Fees ==
    {None} \cup [amount : MCCoinLists, gas_limit : {1, MaxGasWanted + 1},
                 payer : MCAddressTexts \cup {None}]
Tips == {None} \cup [amount : MCCoinLists, tipper : {ToBech32(A), None}]
GoodFee == [amount |-> <<>>, gas_limit |-> 1, payer |-> ToBech32(B)]
AuthInfos ==
    [signer_infos : {GoodInfos}, fee : Fees, tip : {None}]
      \cup [signer_infos : {GoodInfos}, fee : {GoodFee}, tip : Tips]
      \cup [signer_infos : SignerInfos, fee : {GoodFee}, tip : {None}]
GoodAuth == [signer_infos |-> GoodInfos, fee |-> GoodFee, tip |-> None]

(* Bytes with a body or an auth_info in two occurrences. *)
Occurrences ==
    [body : {None, Body(<<GoodSend>>, <<>>), Body(<<>>, <<"option">>)},
     auth_info :
       {None, GoodAuth,
        [signer_infos |-> <<>>, fee |-> [GoodFee EXCEPT !.amount = <<C(1, <<5>>)>>],
         tip |-> [amount |-> <<C(1, <<5>>)>>, tipper |-> ToBech32(B)]]}]
Lasts ==
    [body : {Body(<<>>, <<>>), Body(<<GoodSend>>, <<>>), Body(<<AnyOf("MsgSend", Malformed)>>, <<>>)},
     auth_info :
       {GoodAuth,
        [GoodAuth EXCEPT !.fee = [GoodFee EXCEPT !.amount = <<C(2, <<1>>)>>, !.payer = None],
                         !.tip = [amount |-> <<C(2, <<1>>)>>, tipper |-> None]]},
     signatures : {<<"s">>, <<"s", "t">>}]

MCRawTxs ==
    [body : Bodies, auth_info : {GoodAuth, None}, signatures : {<<"s">>}]
      \cup [body : {Body(<<GoodSend>>, <<>>), Body(<<AnyOf("MsgSend", Malformed)>>, <<>>)},
            auth_info : AuthInfos, signatures : {<<>>, <<"s">>, <<"s", "t">>}]
      \cup {MergedTx(earlier, last) : earlier \in Occurrences, last \in Lasts}

BaseAccounts == [address : MCAddressTexts, pub_key : Keys, account_number : {2}, sequence : {3}]
MCRawAccounts ==
    {AnyOf("BaseAccount", a) : a \in BaseAccounts}
      \cup {AnyOf("ModuleAccount", [base_account |-> a, name |-> "name"]) :
              a \in BaseAccounts \cup {None}}
      \cup {AnyOf("BaseAccount", Malformed), AnyOf("Other", Malformed)}

MCTransfers ==
    LET coins == [denom : {1}, amount : 0 .. 1]
    IN  [key : {1}, to : {A, B}, coin : coins, fee : coins \cup {None},
         sequence : 0 .. 1, number : {7}]

-----------------------------------------------------------------------------
(* Keys and parameters: bytes 0 .. MaxByte, keys of up to two bytes. *)
MCByteStrings == SeqOf(0 .. MaxByte, 2)
MCDatabases ==
    {[prefix |-> prefix, db |-> [k \in {prefix \o l : l \in keys} \cup keys |-> Len(k)]] :
       keys \in UNION {kSubset(n, MCByteStrings) : n \in 0 .. 2}, prefix \in MCByteStrings}
MCLimits == {Unbounded, Included(<<1>>), Excluded(<<1>>), Excluded(<<2, 2>>)}

MCAuthSpace == <<0>>
MCBankSpace == <<1, 0>>
MCBaseAppSpace == <<1, 2>>
MCKeyOf(param) ==
    CASE param = "max_memo_characters" -> <<0>>
      [] param = "tx_sig_limit" -> <<0, 0>>
      [] param = "tx_size_cost_per_byte" -> <<1>>
      [] param = "sig_verify_cost_ed25519" -> <<2>>
      [] param = "sig_verify_cost_secp256k1" -> <<2, 1>>
      [] param \in {"default_send_enabled", "BlockParams"} -> <<0>>
      [] param \in {"send_enabled", "EvidenceParams"} -> <<1>>
      [] OTHER -> <<1, 1>>
MCAuthWrites == {[p \in AuthParams |-> IF p = "tx_sig_limit" THEN n ELSE 10] : n \in {0, 7}}
MCBankWrites == [default_send_enabled : BOOLEAN]
MCDurations ==
    {[seconds |-> d[1], nanos |-> d[2]] :
       d \in {<<2, 1>>, <<4, 0>>, <<4, 1>>, <<5, -5>>, <<-4, -1>>, <<-4, -2>>, <<-5, 5>>}}
MCConsensusWrites ==
    [block : {None, [max_bytes |-> 1, max_gas |-> -1]},
     evidence : {None} \cup
       [max_age_num_blocks : {3}, max_bytes : {4},
        max_age_duration : {None} \cup MCDurations],
     validator : {None}]

-----------------------------------------------------------------------------
(* Merkle roots: leaves that could be taken for inner nodes among others.  *)
MCLeaves ==
    {<<>>, <<Byte(1)>>, <<Byte(2)>>,
     InnerPrefix \o <<LeafHash(<<>>), LeafHash(<<Byte(2)>>)>>,
     <<LeafHash(<<>>), LeafHash(<<Byte(2)>>)>>}
MCLeafLists == SeqOf(MCLeaves, 3) \cup [1 .. 5 -> {<<>>, <<Byte(2)>>}]
MCStoreNames == {<<Byte(1)>>, <<Byte(1), Byte(1)>>, <<Byte(2)>>}
MCStoreHashes == {Sha256(<<>>), Sha256(<<Byte(1)>>)}
=============================================================================
