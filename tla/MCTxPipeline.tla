---------------------------- MODULE MCTxPipeline ----------------------------
(***************************************************************************)
(* Instances of TxPipeline for TLC: Alice and Bob have genesis accounts,   *)
(* Carol and Dave get one when they are first paid.                        *)
(***************************************************************************)
EXTENDS TxPipeline, TLC

CONSTANTS alice, bob, carol, dave, u, v

MCAddress == {alice, bob, carol, dave, FeeCollector}

MCGenesisAccounts == <<alice, bob>>

MCGenesisBalances ==
  [a \in MCAddress |->
     CASE a = alice -> (u :> 3) @@ (v :> 1)
       [] a = bob -> (u :> 2) @@ (v :> 0)
       [] OTHER -> (u :> 0) @@ (v :> 0)]

Send(from, to, coins) == [from |-> from, to |-> to, coins |-> coins]

Sig(sequence, number, withKey) ==
  [sequence |-> sequence, number |-> number, withKey |-> withKey, compact |-> TRUE]

\* The transaction whose last body and auth_info are those of raw, with
\* signatures over the contents given.
SignedOver(t, raw, over) ==
  [raw |-> Contents(raw)] @@
  [t EXCEPT !.sigs = [a \in DOMAIN t.sigs |-> [over |-> Contents(over)] @@ t.sigs[a]]]

\* As the command line makes it: a body and an auth_info, signed.
Signed(t) == SignedOver(t, t, t)

One == u :> 1

Both == (u :> 1) @@ (v :> 1)

\* Alice pays Carol; then, or not at all, Bob pays what he may not have.
AliceTx ==
  {[msgs |-> m, payer |-> None, fee |-> f, timeout |-> t, memo |-> 1,
    sigs |-> alice :> Sig(s, 0, TRUE)] :
      m \in {<<Send(alice, carol, One)>>,
             <<Send(alice, alice, One), Send(alice, bob, Both)>>},
      f \in {<<>>, One}, t \in {0, 1}, s \in {0, 1}}

\* Alice pays the fee of Bob's and her own message.
JointTx ==
  {[msgs |-> <<Send(bob, dave, One), Send(alice, bob, Both)>>,
    payer |-> alice, fee |-> One, timeout |-> 0, memo |-> 0,
    sigs |-> (alice :> Sig(s, 0, TRUE)) @@ (bob :> Sig(r, 1, TRUE))] :
      s \in {0, 1}, r \in {0, 1}}

\* Carol's number depends on when she is first paid; she may leave out her key.
CarolTx ==
  {[msgs |-> <<Send(carol, bob, One)>>, payer |-> None, fee |-> f,
    timeout |-> 0, memo |-> 0, sigs |-> carol :> Sig(s, n, k)] :
      f \in {<<>>, One}, s \in {0, 1}, n \in {3, 4}, k \in BOOLEAN}

\* Alice's signature under a message of Bob's, and Bob's message without his;
\* and a memo that is too long.
WrongTx ==
  {[msgs |-> <<Send(bob, alice, One)>>, payer |-> p, fee |-> <<>>,
    timeout |-> 0, memo |-> 0, sigs |-> alice :> Sig(s, 0, TRUE)] :
      p \in {None, alice}, s \in {0, 1}}
    \cup {[msgs |-> <<Send(alice, bob, One)>>, payer |-> None, fee |-> <<>>,
           timeout |-> 0, memo |-> 2, sigs |-> alice :> Sig(0, 0, TRUE)]}

Pay(to) ==
  [msgs |-> <<Send(alice, to, One)>>, payer |-> None, fee |-> <<>>,
   timeout |-> 0, memo |-> 0, sigs |-> alice :> Sig(0, 0, TRUE)]

\* A signature over another transaction, one that is not compact, and a body
\* in two occurrences, of which the last is signed.
BytesTx ==
  {SignedOver(Pay(bob), Pay(bob), Pay(carol)),
   Signed([Pay(bob) EXCEPT !.sigs[alice].compact = FALSE]),
   SignedOver([Pay(bob) EXCEPT !.msgs = Pay(carol).msgs \o @], Pay(bob), Pay(bob))}

MCTx ==
  {Signed(t) : t \in AliceTx \cup JointTx \cup CarolTx \cup WrongTx} \cup BytesTx

=============================================================================
