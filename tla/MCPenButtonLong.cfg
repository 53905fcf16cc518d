SPECIFICATION PbSpec
CONSTANT RC_BUTTON_OVER_THRESH = 3
PROPERTY LongIsLong
