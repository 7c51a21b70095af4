CONSTANTS
  k1 = k1
  k2 = k2
  k3 = k3
  h1 = h1
  h2 = h2
  p1 = p1
  p2 = p2
  InKeys <- MCInKeys
  InChan <- MCInChan
  OutChans <- MCOutChans
  MaxHtlcId = 1
  Hashes <- MCHashes
  PaymentHash <- MCPaymentHash
  Callers <- MCCallers
SPECIFICATION Spec
INVARIANTS
    SignedStaysOpen
    ForwardedOnce
    MemoryMatchesDisk
    LookupFindsOpen
SYMMETRY MCSymmetry
