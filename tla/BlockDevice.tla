----------------------------- MODULE BlockDevice -----------------------------
(***************************************************************************)
(* What the file system may expect of a block device, from the BlockDevice *)
(* trait as the SD card driver fulfils it.  A call answers with Ok or with *)
(* an error; one that fails changes nothing.  A write that was answered    *)
(* may still be on its way to the medium, but at most one is: the medium   *)
(* always holds what an initial part of the answered writes made of it.    *)
(* If that last write is lost, the device never again answers with Ok.     *)
(***************************************************************************)
CONSTANTS Block, Data

VARIABLES content,   \* what the answered writes have made of the blocks
          medium,    \* what a loss of power would leave
          broken,    \* the device has reported an error
          answer     \* of the latest call

vars == <<content, medium, broken, answer>>

Init ==
  /\ content \in [Block -> Data]
  /\ medium = content
  /\ broken \in BOOLEAN
  /\ answer = <<"none">>

\* The device comes up.
Reset ==
  /\ broken' = FALSE
  /\ answer = <<"none">>
  /\ UNCHANGED <<content, medium, answer>>

Read(b) ==
  /\ ~broken
  /\ answer' = <<"read", b, content[b]>>
  /\ UNCHANGED <<content, medium, broken>>

Write(b, d) ==
  /\ ~broken
  /\ medium = content
  /\ content' = [content EXCEPT ![b] = d]
  /\ answer' = <<"write", b, d>>
  /\ UNCHANGED <<medium, broken>>

\* The write on its way reaches the medium.
Settle ==
  /\ medium' = content
  /\ UNCHANGED <<content, broken, answer>>

\* An error; the write on its way, if there is one, is lost.
Break ==
  /\ broken' = TRUE
  /\ content' = medium
  /\ UNCHANGED <<medium, answer>>

Fail ==
  /\ answer' = <<"error">>
  /\ UNCHANGED <<content, medium, broken>>

Next ==
  \/ Reset \/ Settle \/ Break \/ Fail
  \/ \E b \in Block : Read(b) \/ \E d \in Data : Write(b, d)

Spec == Init /\ [][Next]_vars
=============================================================================
