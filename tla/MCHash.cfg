SPECIFICATION Spec

INVARIANTS
    IntKeysScaledByHashFactor
