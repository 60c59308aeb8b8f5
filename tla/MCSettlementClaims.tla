------------------------ MODULE MCSettlementClaims ------------------------
(***************************************************************************)
(* What the repository says about batches that fail, put to Settlement.    *)
(* chance[b] remembers whether the winner of b could ever have finalized   *)
(* it, as the contract then stood.                                         *)
(***************************************************************************)
EXTENDS MCSettlement

VARIABLE chance

ClaimsInit == Init /\ chance = [b \in Batches |-> FALSE]

ClaimsNext ==
  /\ Next
  /\ chance' = [b \in Batches |->
                  chance[b] \/ ENABLED (finalizeUnwind(b) \/ finalizeSettle(b))]

ClaimsSpec == ClaimsInit /\ [][ClaimsNext]_<<vars, chance>>

\* A winner is slashed only after a moment at which finalize would have gone
\* through: docs/spek-teknis.md says of the pause that it stops new batches only
\* and does not touch funds, and the bond of a batch already won is one
\* (finalize and expireBatch of Settlement.sol, pause of Guarded.sol).
ExpiredWinnerHadChance == \A b \in Batches : outcome[b] = "expired" => chance[b]

\* threat-model.md of the owner whose leg cannot be collected: "the attacker's
\* nonce is burned too".  Every unwound batch (the catch in _pull) leaves the
\* nonce of the leg that failed spent.
UnwindBurnsOffender ==
  [][\A b \in Batches :
       outcome[b] = "none" /\ outcome'[b] = "unwound" =>
         LET s == best[b].solution IN NonceKey(s, collected(s) + 1) \in nonceUsed']_vars
=============================================================================
