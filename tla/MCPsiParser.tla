----------------------------- MODULE MCPsiParser -----------------------------
(* PsiParser on every tiling of a short stream. *)
EXTENDS PsiParser, FiniteSetsExt

MinSection == HeaderLength + ExtLength + 1

(* The sets of positions at which sections of sufficient length may start. *)
Cuts == {H \in SUBSET (1..(StreamLength - MinSection + 1)) :
           1 \in H /\ \A g, h \in H : g < h => h - g >= MinSection}

MCStreams == {[h \in H |-> Min({g - 1 : g \in {x \in H : x > h}} \cup {StreamLength})] : H \in Cuts}
=============================================================================
