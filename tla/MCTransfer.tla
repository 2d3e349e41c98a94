------------------------------- MODULE MCTransfer -------------------------------
(***************************************************************************)
(* Instances of module Transfer.                                           *)
(***************************************************************************)
EXTENDS Transfer

Tx(kind, to, amount, asset) ==
  [kind |-> kind, timestamp |-> 1, from |-> "alice", to |-> to, amount |-> amount,
   fee |-> 0, asset |-> asset, sigs |-> <<>>]
Offer(tx, keys) == [tx |-> tx, keys |-> keys]
Key == Piece(<<"key">>, 32)
Name == Piece(<<"name">>, 9)
OldKey(sign) == Piece(<<sign, "key">>, 65)
Voted(sign) == Piece(<<sign, "bob">>, 3)

OldSend == Offer(Tx("oldSend", "rise1", 2, <<>>), 2)
OldVote == Offer(Tx("oldVote", "alice", 0, <<OldKey("+")>>), 2)
OldSwitch == Offer(Tx("oldVote", "alice", 0, <<OldKey("-"), OldKey("+")>>), 1)
OldRegister == Offer(Tx("oldRegister", NoAddress, 0, <<Name>>), 2)
OldSecond == Offer(Tx("oldSecond", NoAddress, 0, <<Key>>), 1)
Send == Offer(Tx("send", "bob", 1, <<>>), 1)
SendData == Offer(Tx("send", "rise1", 1, <<Piece(<<"data">>, 30)>>), 1)
Second == Offer(Tx("second", NoAddress, 0, <<Key>>), 1)
Register == Offer(Tx("register", NoAddress, 0, <<Key, Name>>), 1)
Vote == Offer(Tx("vote", NoAddress, 0, <<Voted("+"), Voted("-")>>), 1)
Keystore == Offer(Tx("keystore", NoAddress, 0, <<Name, Key>>), 1)

(* Types accept all of these, and what is read is what was written, with    *)
(* one signature or two; but two keys of an old vote are not, nor data.     *)
Unread == {SendData, OldSwitch}
Others == {OldSend, OldVote, OldRegister, OldSecond, Send, Second, Register, Vote, Keystore}
ASSUME OthersSurvive ==
  \A o \in Others, keys \in 1 .. 2 : TypeValid(o.tx) /\ Survives(Signed(o.tx, keys))
ASSUME TheseDoNot == \A o \in Unread : TypeValid(o.tx) /\ ~Survives(Signed(o.tx, 1))
(* The database gives all of them back.                                     *)
ASSUME AllRestored ==
  \A o \in Others \cup Unread :
    Normal(Signed(o.tx, 1)) /\ Restored(Row(Signed(o.tx, 1))) = Signed(o.tx, 1)

MixedOffers == {OldVote, SendData, Keystore}
SwitchOffers == {OldSwitch, Send}
RisingFees == <<[height |-> 1, fee |-> 1, perByte |-> 0], [height |-> 2, fee |-> 2, perByte |-> 1]>>
================================================================================
