--------------------------- MODULE MCCacheWriter ---------------------------
(***************************************************************************)
(* A scan that persists a script (asset file, then content and index       *)
(* files) while a background revalidation persists another one with the    *)
(* same bytes and the same normalised URL (it has a trailing slash more):  *)
(* both write the same asset file and the same content file.               *)
(***************************************************************************)
EXTENDS CacheWriter

CONSTANTS main, bg, assetU, chunkU, assetV, chunkV,
          asset, content, indexU, indexV

MCJob == {assetU, chunkU, assetV, chunkV}
MCPath == {asset, content, indexU, indexV}

MCFiles == [j \in MCJob |->
  CASE j \in {assetU, assetV} -> <<asset>>
    [] j = chunkU -> <<content, indexU>>
    [] j = chunkV -> <<content, indexV>>]

MCScript == [c \in {main, bg} |->
  IF c = main THEN <<assetU, chunkU>> ELSE <<assetV, chunkV>>]
=============================================================================
