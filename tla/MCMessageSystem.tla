--------------------------- MODULE MCMessageSystem ---------------------------
(***************************************************************************)
(* Small instances of MessageSystem for TLC.                               *)
(***************************************************************************)
EXTENDS MessageSystem, TLC

CONSTANTS ann, bob, m1, m2, e1, e2, e3, v1, v2, v3

Messages(ms) == [msgs |-> ms, statuses |-> <<>>]
About(m, s) == [msgs |-> <<>>, statuses |-> <<[of |-> m, val |-> s]>>]

AllText == [m \in Msgs |-> "text"]
TextAndMedia == (m1 :> "text") @@ (m2 :> "media")
TextAndLong == (m1 :> "text") @@ (m2 :> "long")
SameSender == [m \in Msgs |-> ann]

(* Two messages in an envelope each.                                       *)
Apart == (e1 :> <<Messages(<<m1>>)>>) @@ (e2 :> <<Messages(<<m2>>)>>)
(* One envelope with two changes; both messages in one change.             *)
InTwoChanges == e1 :> <<Messages(<<m1>>), Messages(<<m2>>)>>
Together == e1 :> <<Messages(<<m1, m2>>)>>
(* Both messages, and a status of the first reply.                         *)
ApartAndStatus == Apart @@ (e3 :> <<About(m1, "delivered")>>)
(* A message, and one or two statuses of its reply.                        *)
WithStatus == (e1 :> <<Messages(<<m1>>)>>) @@ (e2 :> <<About(m1, "delivered")>>)
WithStatuses ==
  (e1 :> <<About(m1, "sent")>>) @@ (e2 :> <<About(m1, "delivered")>>)
  @@ (e3 :> <<Messages(<<m1>>)>>)
PostSymmetry == Permutations(Posts)
=============================================================================
