----------------------------- MODULE MCOneAsset -----------------------------
(***************************************************************************)
(* No two assets share a file or a request, so a behaviour of SpecOfOne    *)
(* asks for one of them: a script, whose files do not depend on the        *)
(* revision, in one revision, or another asset in all.                     *)
(***************************************************************************)
EXTENDS MCAssetCache

VARIABLE asset  \* the asset that a behaviour is of

\* The others are not asked for and have the same bodies.
Quiet ==
  \A u \in Url \ {asset} :
    body[u] = body[asset] /\ \A p \in Proc : key[p] # None => u \in todo[p]

InitOfOne == Init /\ asset \in Url /\ Quiet

NextOfOne ==
  /\ Next
  /\ asset' = asset /\ Quiet'
  /\ asset \in Script => build' = build

SpecOfOne == InitOfOne /\ [][NextOfOne]_<<vars, asset>>
=============================================================================
