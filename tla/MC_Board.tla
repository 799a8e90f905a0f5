----------------------------- MODULE MC_Board ------------------------------
(* The instance of Board: each player owns a creature and an Aura.          *)
EXTENDS Board, TLC

SeatsOf == <<"A", "B">>

OwnerOf == "hero" :> "A" @@ "sword" :> "A" @@ "raise" :> "A"
        @@ "genie" :> "B" @@ "land" :> "B" @@ "steal" :> "B"
=============================================================================
