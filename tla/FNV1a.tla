------------------------------- MODULE FNV1a --------------------------------
(***************************************************************************)
(* The routing of storage.go: the 32-bit FNV-1a hash of a key's bytes, and *)
(* the mask that makes a shard number of it.  A uint32 is kept as its four *)
(* bytes, least significant first, which are what the wrap-around of the   *)
(* multiplication is about.                                                *)
(***************************************************************************)
EXTENDS Integers, Sequences, Bitwise

Byte == 0 .. 255

\* 2166136261 = 16r811C9DC5.
fnv1aOffset32 == <<197, 157, 28, 129>>

\* h * 16777619 mod 2^32.  The prime is 2^24 + 403: 403 times each byte, with
\* carries, and the lowest byte once more in the highest place.
TimesPrime(h) ==
    LET c1 == h[1] * 403
        c2 == h[2] * 403 + c1 \div 256
        c3 == h[3] * 403 + c2 \div 256
        c4 == h[4] * 403 + c3 \div 256 + h[1]
    IN  <<c1 % 256, c2 % 256, c3 % 256, c4 % 256>>

\* The loop over the bytes: h ^= b; h *= prime.
fnv1a(key) ==
    LET h[i \in 0 .. Len(key)] ==
          IF i = 0 THEN fnv1aOffset32
          ELSE TimesPrime([h[i - 1] EXCEPT ![1] = @ ^^ key[i]])
    IN  h[Len(key)]

\* hash & shardMask, with 256 shards: the lowest byte.
shardIndex(key) == fnv1a(key)[1]
=============================================================================
