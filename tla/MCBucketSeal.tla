----------------------------- MODULE MCBucketSeal -----------------------------
EXTENDS BucketSeal, TLC

CONSTANTS c1, c2, dA, dB,            \* a document of two chunks, and one of one
          a1, a2, b1

MCChunksOf == dA :> <<a1, a2>> @@ dB :> <<b1>>

\* b1 meets the token gate alone, the chunks of dA meet the sibling gate.
MCTokens == a1 :> 1 @@ a2 :> 1 @@ b1 :> 3

MCSummaryIds == 1..7
=============================================================================
