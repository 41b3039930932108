-------------------------------- MODULE MCMirror --------------------------------
EXTENDS Mirror

\* Two packs that share a chunk in every version.
MCFiles == {"ndf", "mesh"}
MCChunksOf ==
  [f \in MCFiles |->
     IF f = "ndf" THEN <<<<"a", "shared">>, <<"b", "shared">>>>
     ELSE <<<<"shared", "c">>, <<"shared", "d">>>>]

\* The first mod replaces one of them, a second one both.
MCCounterparts == <<{"mesh"}, MCFiles>>
=============================================================================
