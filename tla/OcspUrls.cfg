CONSTANTS
  Base = 12
  HighBit = 6
  OCSP_OID <- MCOcspOid
  OtherOID <- MCOtherOid
  Text <- MCText
  Raw <- MCRaw
  MaxItems = 3
SPECIFICATION FairUrlSpec
INVARIANTS UrlTypeOK DecodesUrls WalkBounded
PROPERTY Decoded
CHECK_DEADLOCK FALSE
