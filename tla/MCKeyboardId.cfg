SPECIFICATION KbSpec
CONSTANTS
 KbChords = {{}, {"a", "b", "c"}}
 VK_LOCK = "lock"
 KB_WINDOW = 6
 KB_REPEAT = 8
 KB_IDLE = 10
 KB_RETRY = 4
 KB_RING = 2
 KEY_BUF_SIZE = 4
 KB_RETURN_KEY_MAX = 3
 KbMaxStalls = 3
 KB_ID_KEYS = 2
INVARIANTS KbNoGarbage
