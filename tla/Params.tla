------------------------------- MODULE Params -------------------------------
(***************************************************************************)
(* The params store: one prefix store for each subspace, written at        *)
(* genesis by the auth, the bank and the base application's keepers and    *)
(* read back by the first two for every transaction. A store maps keys, a  *)
(* subspace's name and a parameter's, to texts.                            *)
(***************************************************************************)
EXTENDS Numerals, KeyRanges

CONSTANTS
    AuthSpace, BankSpace, BaseAppSpace,     \* the names of the subspaces
    KeyOf(_),           \* the key of a parameter
    MaxDuration,        \* i64::MAX
    NanosPerSecond      \* SEC_TO_NANO

AuthParams == {"max_memo_characters", "tx_sig_limit", "tx_size_cost_per_byte",
               "sig_verify_cost_ed25519", "sig_verify_cost_secp256k1"}
BankParams == {"default_send_enabled", "send_enabled"}
ConsensusParams == {"BlockParams", "EvidenceParams", "ValidatorParams"}

(* store_keys.rs: a key name must not be a prefix of another. *)
ASSUME SubspaceAssumption ==
    LET spaces == {AuthSpace, BankSpace, BaseAppSpace}
    IN  /\ spaces \subseteq Seq(0 .. MaxByte)
        /\ AuthSpace # BankSpace /\ AuthSpace # BaseAppSpace /\ BankSpace # BaseAppSpace
        /\ \A s, t \in spaces : IsPrefix(s, t) => s = t

(* Each module's parameters have keys of their own. *)
ASSUME KeyAssumption ==
    /\ \A p \in AuthParams \cup BankParams \cup ConsensusParams : KeyOf(p) \in Seq(0 .. MaxByte)
    /\ \A params \in {AuthParams, BankParams, ConsensusParams} :
         \A p, q \in params : KeyOf(p) = KeyOf(q) => p = q

(* A text and what is got where there is none are not the same. *)
ASSUME TextAssumption ==
    /\ NoValue \notin {"true", "false"}
    /\ \A n \in Uint : NoValue # [quoted |-> TRUE, digits |-> Numeral(n)]

(* A wrong Written: a parameter is set in the store of all subspaces. *)
WrittenOutside(store, space, texts) ==
    FoldSet(LAMBDA param, s : PrefixStoreSet(s, <<>>, KeyOf(param), texts[param]),
            store, DOMAIN texts)

(* get_mutable_raw_subspace and a set for each text. *)
Written(store, space, texts) ==
    FoldSet(LAMBDA param, s : PrefixStoreSet(s, space, KeyOf(param), texts[param]),
            store, DOMAIN texts)

Read(store, space, param) == PrefixStoreGet(store, space, KeyOf(param))

(* Numbers are JSON strings; every failure to read one back is a panic. *)
Quoted(n) == [quoted |-> TRUE, digits |-> Numeral(n)]
ParseParam(text) ==
    IF text = NoValue THEN Panic
    ELSE IF ~ text.quoted \/ ParsedUint(text.digits) = Malformed THEN Panic
    ELSE ParsedUint(text.digits)

GetAuthParams(store) ==
    LET params == [p \in AuthParams |-> ParseParam(Read(store, AuthSpace, p))]
    IN  IF \E p \in AuthParams : params[p] = Panic THEN Panic ELSE params

SetAuthParams(store, params) ==
    Written(store, AuthSpace, [p \in AuthParams |-> Quoted(params[p])])

GetBankParams(store) ==
    LET enabled == Read(store, BankSpace, "default_send_enabled")
    IN  IF enabled = NoValue THEN Panic
        ELSE [default_send_enabled |-> enabled = "true"]

SetBankParams(store, params) ==
    Written(store, BankSpace,
            [default_send_enabled |->
               IF params.default_send_enabled THEN "true" ELSE "false",
             send_enabled |-> "[]"])

(* The consensus parameters are written as JSON objects of texts. The      *)
(* duration is one number of nanoseconds, which may overflow an i64: that  *)
(* is a panic where overflows are checked (a debug build); a release build *)
(* wraps, and only the first is modelled.                                  *)
Printed(n) == [negative |-> n < 0, digits |-> Numeral(IF n < 0 THEN - n ELSE n)]
BlockParams(raw) ==
    [max_bytes |-> Printed(raw.max_bytes), max_gas |-> Printed(raw.max_gas)]
ValidatorParams(raw) == [pub_key_types |-> raw.pub_key_types]

InI64(n) == - MaxDuration - 1 <= n /\ n <= MaxDuration

Nanoseconds(duration) ==
    LET seconds == duration.seconds * NanosPerSecond
        nanos == seconds + duration.nanos
    IN  IF InI64(seconds) /\ InI64(nanos) THEN Printed(nanos) ELSE Panic

EvidenceParams(raw) ==
    [max_age_num_blocks |-> Printed(raw.max_age_num_blocks),
     max_age_duration |-> IF raw.max_age_duration = None THEN None
                          ELSE Nanoseconds(raw.max_age_duration),
     max_bytes |-> Printed(raw.max_bytes)]

SetConsensusParams(store, params) ==
    LET texts == [BlockParams |-> IF params.block = None THEN None
                                  ELSE BlockParams(params.block),
                  EvidenceParams |-> IF params.evidence = None THEN None
                                     ELSE EvidenceParams(params.evidence),
                  ValidatorParams |-> IF params.validator = None THEN None
                                      ELSE ValidatorParams(params.validator)]
    IN  IF /\ params.evidence # None
           /\ texts.EvidenceParams.max_age_duration = Panic
        THEN Panic
        ELSE Written(store, BaseAppSpace,
                     Restrict(texts, {p \in DOMAIN texts : texts[p] # None}))

-----------------------------------------------------------------------------
(* Whatever the params store holds, the parameters a module sets are the   *)
(* ones it gets, and the other modules' are not touched.                   *)
ParamsStayApart(store, auth, bank, consensus) ==
    /\ LET after == SetAuthParams(store, auth)
       IN  /\ GetAuthParams(after) = auth
           /\ GetBankParams(after) = GetBankParams(store)
    /\ LET after == SetBankParams(store, bank)
       IN  /\ GetBankParams(after) = bank
           /\ GetAuthParams(after) = GetAuthParams(store)
    /\ LET after == SetConsensusParams(store, consensus)
       IN  \/ after = Panic
           \/ /\ GetAuthParams(after) = GetAuthParams(store)
              /\ GetBankParams(after) = GetBankParams(store)
=============================================================================
