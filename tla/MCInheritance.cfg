SPECIFICATION Spec
CONSTANTS Sources <- Supported
          Names = {"f", "g", "run", "m", "n"}
          Fuel = 4
INVARIANTS CallsHaveCode RunsMostDerived ConstructedOnce
PROPERTY CompilerEnds
