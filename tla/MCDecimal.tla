----------------------------- MODULE MCDecimal -----------------------------
(* Small instances of Decimal.  Appended are all numbers of up to nine      *)
(* digits over {0, 7}, so up to three groups with zeros in every place, with *)
(* scales on both sides of the group boundaries 4 and 8.                    *)
EXTENDS Decimal

CONSTANTS
  Digits,          \* the digits used
  Lengths,         \* the numbers of digits
  Scales,          \* the scales of the appended decimals,
  NegativeScales,  \* without their sign, the negative ones among them
  Weights,         \* the weights of the foreign numerics,
  NegativeWeights  \* without their sign, the negative ones among them

Negated(S) == { -n : n \in S }

MCAppended ==
  { n \in [neg : BOOLEAN, digits : UNION { [1..k -> Digits] : k \in Lengths },
           scale : Scales \cup Negated(NegativeScales)] :
      IsData(n.digits) /\ (n.neg => n.digits # <<>>) }

ForeignDigits == { <<>>, <<0, 0, 0, 7>>, <<7, 0, 0, 0>>, <<0, 7, 0, 7, 0, 0, 7, 0>> }

MCForeign ==
  { n \in [neg : BOOLEAN, digits : ForeignDigits,
           weight : Weights \cup Negated(NegativeWeights), dscale : {0, 1, 4, 6, 9}] :
      IsStored(n) }
=============================================================================
