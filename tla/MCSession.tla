------------------------------- MODULE MCSession -------------------------------
(***************************************************************************)
(* An instance of Session for TLC: two platforms, of which one has a       *)
(* vendor that DevInfo knows, and kernels that share sources or do not.    *)
(***************************************************************************)
EXTENDS Session, TLC

CONSTANTS any, amd, gfx, other, beta1, main1, main2

MCWords == {any, amd, gfx}
MCPlatforms == <<{any, other}, {any, amd, gfx}>>
MCDevices == <<{any, gfx}, {any, amd}>>
MCTested == {2}

MCRequests == {"BETAC" :> beta1 @@ "MAIN" :> main1, "MAIN" :> main1,
               "BETAC" :> beta1 @@ "MAIN" :> main2}
=============================================================================
