SPECIFICATION Spec
CONSTANTS Programs <- Supported
          Idents = {"x", "y", "z", "payer"}
INVARIANTS AccountsExact IndexesFound CallableFromIdl
PROPERTY Converges
